---- MODULE Spec2Model ----
(***************************************************************************)
(* Read path and synchronisation workers of the mod-metadata mirror.       *)
(*                                                                         *)
(* Catalog A (CurseForge): app/controller/curseforge/v1/__init__.py        *)
(* Catalog B (Modrinth):   app/controller/v1/modrinth/__init__.py and      *)
(*                         app/sync/modrinth.py                            *)
(*                                                                         *)
(* A step of the model is one whole request handler, one whole worker job, *)
(* the end of a request or one tick of the clock.  `resp` and `calls` hold *)
(* what the step that led to the current state returned and enqueued       *)
(* (NoResp / <<>> when that step was not a request).                       *)
(***************************************************************************)
EXTENDS Integers, Sequences, FiniteSets, TLC

VARIABLES
    store,      \* kind -> set of stored records, at most one per primary key
    now,        \* the clock (time.time() / datetime.utcnow())
    queue,      \* jobs submitted and not yet run
    resp,       \* the response of the request this step served
    calls,      \* the enqueue / send calls this step made, in order
    file_cdn,   \* mcim_config.file_cdn
    ran,        \* number of jobs the workers have run
    last,       \* the job this step ran and how it ended (NoJob otherwise)
    kv,         \* the key-value store (redis): the hashes that hold their blobs
    cache,      \* webapi.py: the rows of table curseforge_mod_info
    built,      \* the batches of the jobs in flight: built and not yet saved
    mirror,     \* the file mirror: the files on disk (by sha512 name) and the
                \* add_http_task calls of the last job that ran
    mr_tables   \* webapi.py: the rows of tables modrinth_project_info and
                \* modrinth_tag_info

vars == <<store, now, queue, resp, calls, file_cdn, ran, last, kv, cache, built, mirror,
          mr_tables>>

----------------------------------------------------------------------------
(* Bounds of the model *)

MaxTime == 2        \* the clock runs 0..MaxTime
MaxReqLen == 2      \* longest key list of a batch request
MaxJobs == 2        \* jobs the workers run in one behaviour

(* mcim_config.expire_second.modrinth.{project,version,file}: configured lifetimes *)
ProjectTTL == 1
VersionTTL == 1
MFileTTL == 1
(* mcim_config.expire_second.curseforge.{mod,file,fingerprint} *)
ModTTL == 1
FileTTL == 1
FingerprintTTL == 1

Range(s) == {s[i] : i \in DOMAIN s}
SeqsUpTo(S, n) == UNION {[1..k -> S] : k \in 0..n}
\* the key lists of batch requests, repeated keys included.  The handlers read
\* a list through its length and its set of keys only, so one order stands
\* for all of them
KeyLists(S, n) == {s \in SeqsUpTo(S, n) : \A i \in 1..(Len(s) - 1) : s[i] <= s[i + 1]}
IdsOf(models) == {m.id : m \in models}

(* Key universes.  The CurseForge ids respect the handlers' Field(ge=, lt=) *)
(* validation; 29999 only occurs in search results.                         *)
ModIds == {30000, 30001}
FileIds == {530000, 530001}
FingerprintIds == {7, 8}
SearchIds == {29999} \cup ModIds

(* What the upstreams hold: the rest answers 404. *)
UpstreamMods == {30001}
UpstreamFiles == {530000}
UpstreamFingerprints == {7}
UpstreamFileMod(fileId) == 30001
UpstreamFingerprintFile(fp) == 530000

(* Catalog B: projects 1 and 2 exist upstream, project p has slug 10 + p.    *)
(* Project 1 has one version 101 with one file 201; project 2 has the        *)
(* versions 102 and 104 with two files each (202, 204 and 206, 208).  Every  *)
(* other key is 404.  Clients ask for the keys of ProjectIds, VersionIds and *)
(* HashIds; the other versions and files reach the store through the jobs.   *)
ProjectIds == {1, 2, 3}
VersionIds == {101, 102, 103}
UpstreamProjects == {1, 2}
UpstreamSlug(p) == 10 + p
ProjectSlugs == {UpstreamSlug(p) : p \in UpstreamProjects}
UpstreamVersionsOf(p) == IF p = 2 THEN <<102, 104>> ELSE <<100 + p>>
UpstreamVersions == UNION {Range(UpstreamVersionsOf(p)) : p \in UpstreamProjects}
UpstreamProjectOf(v) == IF v = 104 THEN 2 ELSE IF v = 103 THEN 1 ELSE v - 100
UpstreamFilesOf(v) ==
    IF v = 102 THEN <<202, 204>> ELSE IF v = 104 THEN <<206, 208>> ELSE <<100 + v>>
\* a file is asked for by its hash; the model names a file by one number, which
\* stands for its sha1 and its sha512
HashIds == {201, 202, 203}
UpstreamHashes == UNION {Range(UpstreamFilesOf(v)) : v \in UpstreamVersions}
UpstreamVersionOfHash(hash) ==
    IF hash \in {202, 204} THEN 102 ELSE IF hash \in {206, 208} THEN 104 ELSE hash - 100
\* the project an id or a slug names upstream ({} when 404)
UpstreamResolve(idslug) == {p \in UpstreamProjects : idslug = p \/ idslug = UpstreamSlug(p)}

\* the upstream does not stand still: a job may find ("published") that
\* version 103, with its file 203, has been published under project 1 since
\* the jobs before it ran
LaterVersion == 103
UpstreamVersionsAlways(p, up) ==
    UpstreamVersionsOf(p) \o (IF p = 1 THEN <<LaterVersion>> ELSE <<>>)
UpstreamVersionsAt(p, up) ==
    UpstreamVersionsOf(p) \o (IF up = "published" /\ p = 1 THEN <<LaterVersion>> ELSE <<>>)
VersionsHeld(up) == UpstreamVersions \cup (IF up = "published" THEN {LaterVersion} ELSE {})
HashesHeld(up) == UNION {Range(UpstreamFilesOf(v)) : v \in VersionsHeld(up)}


----------------------------------------------------------------------------
(* Responses (app.utils.response) and calls *)

NoResp ==
    [handler |-> "none", force |-> FALSE, req |-> <<>>, kind |-> "none",
     trustable |-> FALSE, data |-> {}, exact |-> <<>>, unmatched |-> <<>>,
     inline |-> <<>>]

\* UncachedResponse(): the explicit "not cached, sync in progress" signal
UncachedResponse(h, force, req) ==
    [handler |-> h, force |-> force, req |-> req, kind |-> "Uncached",
     trustable |-> FALSE, data |-> {}, exact |-> <<>>, unmatched |-> <<>>,
     inline |-> <<>>]

\* TrustableResponse(content=..., trustable=...)
TrustableResponse(h, force, req, data, trustable) ==
    [handler |-> h, force |-> force, req |-> req, kind |-> "Trustable",
     trustable |-> trustable, data |-> data, exact |-> <<>>, unmatched |-> <<>>,
     inline |-> <<>>]

\* TrustableResponse(content=CurseforgeBaseResponse(data=FingerprintResponse(...)))
FingerprintResponse(h, req, exactMatches, exactFingerprints, unmatched, trustable) ==
    [handler |-> h, force |-> FALSE, req |-> req, kind |-> "Trustable",
     trustable |-> trustable, data |-> exactMatches, exact |-> exactFingerprints,
     unmatched |-> unmatched, inline |-> <<>>]

\* Response(status_code=EXPIRE_STATUS_CODE): a bare status, no flag, no body
StatusResponse(h, force, req) ==
    [handler |-> h, force |-> force, req |-> req, kind |-> "Status",
     trustable |-> FALSE, data |-> {}, exact |-> <<>>, unmatched |-> <<>>,
     inline |-> <<>>]

\* an exception raised out of the handler: the client gets an error status, no
\* flag and no content
ErrorResponse(h, force, req) ==
    [handler |-> h, force |-> force, req |-> req, kind |-> "Error",
     trustable |-> FALSE, data |-> {}, exact |-> <<>>, unmatched |-> <<>>,
     inline |-> <<>>]

\* the response r of a handler that, before answering, did the work `work`
\* itself: a request to the upstream or a synchronization
Inline(r, work) == [r EXCEPT !.inline = work]

\* one enqueue call: the function called, the keyword it was given, the keys
Call(fn, kw, keys) == [fn |-> fn, kw |-> kw, keys |-> keys]

Out(r, cs) == [resp |-> r, calls |-> cs]

----------------------------------------------------------------------------
(* Entity store adapter (odmantic engine) *)

\* engine.find(Model, query.in_(Model.id, keys))
find(kind, keys) == {m \in store[kind] : m.id \in Range(keys)}

\* list(set(keys) - set([m.id for m in models])), as a sorted list
RECURSIVE SetToSeq(_)
SetToSeq(S) ==
    IF S = {} THEN <<>>
    ELSE LET x == CHOOSE y \in S : \A z \in S : y <= z
         IN <<x>> \o SetToSeq(S \ {x})

\* the difference forgotten: every requested key is reported missing
SetDifferenceKeepsPresent(keys, models) == SetToSeq(Range(keys))

SetDifference(keys, models) == SetToSeq(Range(keys) \ IdsOf(models))

----------------------------------------------------------------------------
(* Catalog A read handlers *)

\* curseforge_mod without its force branch
curseforge_mod_ignoring_force(modId, force) ==
    LET h == "curseforge_mod"
        req == <<modId>>
        enq == <<Call("add_curseforge_modIds_to_queue", "modIds", <<modId>>)>>
        mod_model == find("mod", req)
    IN  IF mod_model = {} THEN Out(UncachedResponse(h, force, req), enq)
        ELSE Out(TrustableResponse(h, force, req, mod_model, TRUE), <<>>)

curseforge_mod(modId, force) ==
    LET h == "curseforge_mod"
        req == <<modId>>
        enq == <<Call("add_curseforge_modIds_to_queue", "modIds", <<modId>>)>>
        mod_model == find("mod", req)
    IN  IF force THEN Out(UncachedResponse(h, force, req), enq)
        ELSE IF mod_model = {} THEN Out(UncachedResponse(h, force, req), enq)
        ELSE Out(TrustableResponse(h, force, req, mod_model, TRUE), <<>>)

curseforge_mods(modIds, force) ==
    LET h == "curseforge_mods"
        mod_models == find("mod", modIds)
        mod_model_count == Cardinality(mod_models)
        item_count == Len(modIds)
        not_match_modids == SetDifference(modIds, mod_models)
    IN  IF force THEN
            Out(TrustableResponse(h, force, modIds, {}, FALSE),
                <<Call("add_curseforge_modIds_to_queue", "modIds", modIds)>>)
        ELSE IF mod_models = {} THEN
            Out(TrustableResponse(h, force, modIds, {}, FALSE),
                <<Call("add_curseforge_modIds_to_queue", "modIds", modIds)>>)
        ELSE IF mod_model_count # item_count THEN
            Out(TrustableResponse(h, force, modIds, mod_models, FALSE),
                <<Call("add_curseforge_modIds_to_queue", "modIds", not_match_modids)>>)
        ELSE Out(TrustableResponse(h, force, modIds, mod_models, TRUE), <<>>)

\* the $match / $skip / $limit pipeline over the File collection; requests
\* carry no gameVersion / modLoaderType filter and the default pageSize
FilesOfMod(modId, index) ==
    LET matched == {f \in store["file"] : f.modId = modId}
        ordered == SetToSeq(IdsOf(matched))
    IN  {f \in matched : \E i \in DOMAIN ordered : i > index /\ ordered[i] = f.id}

curseforge_mod_files(modId, index, force) ==
    LET h == "curseforge_mod_files"
        req == <<modId>>
        enq == <<Call("add_curseforge_modIds_to_queue", "modIds", <<modId>>)>>
        documents == FilesOfMod(modId, index)
    IN  IF force THEN Out(UncachedResponse(h, force, req), enq)
        ELSE IF documents = {} THEN Out(UncachedResponse(h, force, req), enq)
        ELSE Out(TrustableResponse(h, force, req, documents, TRUE), <<>>)

\* curseforge_files whose force branch submits only the keys not stored
curseforge_files_force_missing_only(fileIds, force) ==
    LET h == "curseforge_files"
        file_models == find("file", fileIds)
        not_match_fileids == SetDifference(fileIds, file_models)
    IN  IF force THEN
            Out(UncachedResponse(h, force, fileIds),
                <<Call("add_curseforge_fileIds_to_queue", "fileIds", not_match_fileids)>>)
        ELSE IF file_models = {} THEN
            Out(UncachedResponse(h, force, fileIds),
                <<Call("add_curseforge_fileIds_to_queue", "fileIds", fileIds)>>)
        ELSE IF Cardinality(file_models) # Len(fileIds) THEN
            Out(TrustableResponse(h, force, fileIds, file_models, FALSE),
                <<Call("add_curseforge_fileIds_to_queue", "fileIds", not_match_fileids)>>)
        ELSE Out(TrustableResponse(h, force, fileIds, file_models, TRUE), <<>>)

curseforge_files(fileIds, force) ==
    LET h == "curseforge_files"
        file_models == find("file", fileIds)
        not_match_fileids == SetDifference(fileIds, file_models)
    IN  IF force THEN
            Out(UncachedResponse(h, force, fileIds),
                <<Call("add_curseforge_fileIds_to_queue", "fileIds", fileIds)>>)
        ELSE IF file_models = {} THEN
            Out(UncachedResponse(h, force, fileIds),
                <<Call("add_curseforge_fileIds_to_queue", "fileIds", fileIds)>>)
        ELSE IF Cardinality(file_models) # Len(fileIds) THEN
            Out(TrustableResponse(h, force, fileIds, file_models, FALSE),
                <<Call("add_curseforge_fileIds_to_queue", "fileIds", not_match_fileids)>>)
        ELSE Out(TrustableResponse(h, force, fileIds, file_models, TRUE), <<>>)

curseforge_mod_file(modId, fileId, force) ==
    LET h == "curseforge_mod_file"
        req == <<fileId>>
        enq == <<Call("add_curseforge_fileIds_to_queue", "fileIds", <<fileId>>)>>
        model == {f \in store["file"] : f.modId = modId /\ f.id = fileId}
    IN  IF force THEN Out(UncachedResponse(h, force, req), enq)
        ELSE IF model = {} THEN Out(UncachedResponse(h, force, req), enq)
        ELSE Out(TrustableResponse(h, force, req, model, TRUE), <<>>)

\* the handler never reads request.state.force_sync
curseforge_mod_file_download_url(modId, fileId) ==
    LET h == "curseforge_mod_file_download_url"
        req == <<fileId>>
        enq == <<Call("add_curseforge_fileIds_to_queue", "fileIds", <<fileId>>)>>
        model == {f \in store["file"] : f.modId = modId /\ f.id = fileId}
    IN  IF model = {} THEN Out(UncachedResponse(h, FALSE, req), enq)
        ELSE Out(TrustableResponse(h, FALSE, req, model, TRUE), <<>>)

\* the dumped record under the id it is stored by
SubstituteIdKeepingFingerprint(fingerprint_model) == fingerprint_model

\* fingerprint = fingerprint_model.model_dump(); fingerprint["id"] = fingerprint_model.file.id
SubstituteId(fingerprint_model) == [fingerprint_model EXCEPT !.id = fingerprint_model.file]

FingerprintsBody(h, fingerprints, force) ==
    LET fingerprints_models == find("fingerprint", fingerprints)
        not_match_fingerprints == SetDifference(fingerprints, fingerprints_models)
        exactFingerprints == SetToSeq(IdsOf(fingerprints_models))
        result_fingerprints_models == {SubstituteId(m) : m \in fingerprints_models}
        mismatch == Cardinality(fingerprints_models) # Len(fingerprints)
    IN  IF force THEN
            Out(UncachedResponse(h, force, fingerprints),
                <<Call("add_curseforge_fingerprints_to_queue", "fingerprints", fingerprints)>>)
        ELSE IF fingerprints_models = {} THEN
            Out(FingerprintResponse(h, fingerprints, {}, <<>>, fingerprints, FALSE),
                <<Call("add_curseforge_fingerprints_to_queue", "fingerprints", fingerprints)>>)
        ELSE
            Out(FingerprintResponse(h, fingerprints, result_fingerprints_models,
                                    exactFingerprints, not_match_fingerprints, ~mismatch),
                IF mismatch
                THEN <<Call("add_curseforge_fingerprints_to_queue", "fingerprints",
                            not_match_fingerprints)>>
                ELSE <<>>)

curseforge_fingerprints(fingerprints, force) ==
    FingerprintsBody("curseforge_fingerprints", fingerprints, force)

curseforge_fingerprints_432(fingerprints, force) ==
    FingerprintsBody("curseforge_fingerprints_432", fingerprints, force)

\* a background task that does not look into the store
check_search_result_unchecked(res) ==
    LET modids == {id \in Range(res) : id >= 30000}
    IN  IF modids # {}
        THEN <<Call("add_curseforge_modIds_to_queue", "modIds", SetToSeq(modids))>>
        ELSE <<>>

\* background task of the search handler
check_search_result(res) ==
    LET modids == {id \in Range(res) : id >= 30000}
        mod_models == {m \in store["mod"] : m.id \in modids}
        not_found_modids == modids \ IdsOf(mod_models)
    IN  IF modids # {} /\ not_found_modids # {}
        THEN <<Call("add_curseforge_modIds_to_queue", "modIds", SetToSeq(not_found_modids))>>
        ELSE <<>>

\* The handler asks the upstream itself (request_async, SEARCH_TIMEOUT) and
\* answers with what it got: res is the upstream's search result (the ids of
\* its "data" entries).  An upstream that fails, or is slower than the
\* timeout, makes the request raise, and nothing in the handler catches it
curseforge_search(res, up) ==
    IF up = "fails"
    THEN Out(Inline(ErrorResponse("curseforge_search", FALSE, <<>>), <<"request_async">>), <<>>)
    ELSE Out(Inline(TrustableResponse("curseforge_search", FALSE, res, {}, TRUE),
                    <<"request_async">>),
             check_search_result(res))

\* sync_categories() of app.sync.curseforge, called as a plain function: it
\* asks the upstream for the categories and stores the blob
sync_categories(up) == IF up = "answers" THEN kv \cup {"curseforge"} ELSE kv

\* hget("curseforge", "categories"); on None the handler runs sync_categories()
\* itself and reads again; json.loads(None) raises TypeError
curseforge_categories(up) ==
    IF "curseforge" \in kv
    THEN [resp |-> TrustableResponse("curseforge_categories", FALSE, <<>>, {}, TRUE),
          kv |-> kv]
    ELSE LET synced == sync_categories(up)
             r == IF "curseforge" \in synced
                  THEN TrustableResponse("curseforge_categories", FALSE, <<>>, {}, TRUE)
                  ELSE ErrorResponse("curseforge_categories", FALSE, <<>>)
         IN  [resp |-> Inline(r, <<"sync_categories">>), kv |-> synced]

----------------------------------------------------------------------------
(* Catalog B read handlers.  They take no force flag.                      *)

\* the lifetime counted twice
ExpiredLate(model, ttl) == model.sync_at + ttl + ttl < now

\* sync_at.timestamp() + expire_second < time.time()
Expired(model, ttl) == model.sync_at + ttl < now

\* engine.find_one(Model, query.or_(Model.id == idslug, Model.slug == idslug))
find_one_idslug(kind, idslug) ==
    LET ms == {m \in store[kind] : m.id = idslug \/ m.slug = idslug}
    IN  IF ms = {} THEN {} ELSE {CHOOSE m \in ms : \A o \in ms : m.id <= o.id}

\* modrinth_project taking a found = false record for no record
modrinth_project_refetching_not_found(idslug) ==
    LET h == "modrinth_project"
        req == <<idslug>>
        send == <<Call("sync_project", "", <<idslug>>)>>
        model == {m \in find_one_idslug("project", idslug) : m.found}
    IN  IF model = {} THEN Out(UncachedResponse(h, FALSE, req), send)
        ELSE IF \E m \in model : Expired(m, ProjectTTL)
        THEN Out(TrustableResponse(h, FALSE, req, model, FALSE), send)
        ELSE Out(TrustableResponse(h, FALSE, req, model, TRUE), <<>>)

modrinth_project(idslug) ==
    LET h == "modrinth_project"
        req == <<idslug>>
        send == <<Call("sync_project", "", <<idslug>>)>>
        model == find_one_idslug("project", idslug)
    IN  IF model = {} THEN Out(UncachedResponse(h, FALSE, req), send)
        ELSE IF \E m \in model : Expired(m, ProjectTTL)
        THEN Out(TrustableResponse(h, FALSE, req, model, FALSE), send)
        ELSE Out(TrustableResponse(h, FALSE, req, model, TRUE), <<>>)

\* engine.find never returns None, so the "models is None" branch is dead
modrinth_projects(Ids) ==
    LET h == "modrinth_projects"
        models == find("project", Ids)
        mismatch == Cardinality(models) # Len(Ids)
        expire_project_ids == SetToSeq({m.id : m \in {x \in models : Expired(x, ProjectTTL)}})
    IN  Out(TrustableResponse(h, FALSE, Ids, models,
                              ~mismatch /\ expire_project_ids = <<>>),
            (IF mismatch THEN <<Call("sync_multi_projects", "Ids", Ids)>> ELSE <<>>)
            \o (IF expire_project_ids # <<>>
                THEN <<Call("sync_multi_projects", "Ids", expire_project_ids)>>
                ELSE <<>>))

modrinth_project_versions(idslug) ==
    LET h == "modrinth_project_versions"
        model == {v \in store["version"] : v.project_id = idslug \/ v.slug = idslug}
        expired == SetToSeq({v.id : v \in {x \in model : Expired(x, VersionTTL)}})
    IN  IF expired # <<>>
        THEN Out(TrustableResponse(h, FALSE, <<idslug>>, model, FALSE),
                 <<Call("sync_version", "version_id", <<Head(expired)>>)>>)
        ELSE Out(TrustableResponse(h, FALSE, <<idslug>>, model, TRUE), <<>>)

\* the synchronization run by the handler instead of sent
modrinth_version_read_through(version_id) ==
    LET h == "modrinth_version"
        req == <<version_id>>
        model == find_one_idslug("version", version_id)
    IN  IF model = {} \/ \E m \in model : Expired(m, VersionTTL)
        THEN Out(Inline(UncachedResponse(h, FALSE, req), <<"sync_version">>), <<>>)
        ELSE Out(TrustableResponse(h, FALSE, req, model, TRUE), <<>>)

modrinth_version(version_id) ==
    LET h == "modrinth_version"
        req == <<version_id>>
        send == <<Call("sync_version", "version_id", <<version_id>>)>>
        model == find_one_idslug("version", version_id)
    IN  IF model = {} THEN Out(UncachedResponse(h, FALSE, req), send)
        ELSE IF \E m \in model : Expired(m, VersionTTL)
        THEN Out(StatusResponse(h, FALSE, req), send)
        ELSE Out(TrustableResponse(h, FALSE, req, model, TRUE), <<>>)

\* the comparison not strict: sync_at + expire_second <= time.time()
modrinth_versions_expiring_at_ttl(ids_list) ==
    LET h == "modrinth_versions"
        models == find("version", ids_list)
        mismatch == Cardinality(models) # Len(ids_list)
        expire_version_ids ==
            SetToSeq({m.id : m \in {x \in models : x.sync_at + VersionTTL <= now}})
    IN  Out(TrustableResponse(h, FALSE, ids_list, models,
                              ~mismatch /\ expire_version_ids = <<>>),
            (IF mismatch THEN <<Call("sync_multi_versions", "ids_list", ids_list)>> ELSE <<>>)
            \o (IF expire_version_ids # <<>>
                THEN <<Call("sync_multi_versions", "ids_list", expire_version_ids)>>
                ELSE <<>>))

modrinth_versions(ids_list) ==
    LET h == "modrinth_versions"
        models == find("version", ids_list)
        mismatch == Cardinality(models) # Len(ids_list)
        expire_version_ids == SetToSeq({m.id : m \in {x \in models : Expired(x, VersionTTL)}})
    IN  Out(TrustableResponse(h, FALSE, ids_list, models,
                              ~mismatch /\ expire_version_ids = <<>>),
            (IF mismatch THEN <<Call("sync_multi_versions", "ids_list", ids_list)>> ELSE <<>>)
            \o (IF expire_version_ids # <<>>
                THEN <<Call("sync_multi_versions", "ids_list", expire_version_ids)>>
                ELSE <<>>))

\* both algorithm branches do the same lookup, by the hash of that algorithm
modrinth_file(hash) ==
    LET h == "modrinth_file"
        req == <<hash>>
        file_model == {f \in store["mfile"] : f.id = hash}
        file_expired == \E f \in file_model : Expired(f, MFileTTL)
        version_id == (CHOOSE f \in file_model : TRUE).version_id
        version_model == {v \in store["version"] : v.id = version_id}
        version_expired == \E v \in version_model : Expired(v, VersionTTL)
        send_hash == <<Call("sync_hash", "hash", <<hash>>)>>
        send_version == <<Call("sync_version", "version_id", <<version_id>>)>>
        sent == IF file_expired THEN send_hash ELSE <<>>
    IN  IF file_model = {} THEN Out(UncachedResponse(h, FALSE, req), send_hash)
        ELSE IF version_model = {}
        THEN Out(UncachedResponse(h, FALSE, req), sent \o send_version)
        ELSE Out(TrustableResponse(h, FALSE, req, version_model,
                                   ~file_expired /\ ~version_expired),
                 sent \o (IF version_expired THEN send_version ELSE <<>>))

\* "Don't need to check version expire": neither the files nor the versions
\* are compared with the clock; the "is None" branches are dead
modrinth_files(hashes) ==
    LET h == "modrinth_files"
        files_models == find("mfile", hashes)
        ordered == SetToSeq(IdsOf(files_models))
        version_ids == [i \in DOMAIN ordered |->
                          (CHOOSE f \in files_models : f.id = ordered[i]).version_id]
        version_models == find("version", version_ids)
        files_mismatch == Cardinality(files_models) # Len(hashes)
        versions_mismatch == Cardinality(version_models) # Cardinality(files_models)
    IN  Out(TrustableResponse(h, FALSE, hashes, version_models,
                              ~files_mismatch /\ ~versions_mismatch),
            (IF files_mismatch THEN <<Call("sync_multi_hashes", "hashes", hashes)>> ELSE <<>>)
            \o (IF versions_mismatch
                THEN <<Call("sync_multi_versions", "ids_list", version_ids)>>
                ELSE <<>>))

\* x = await aio_redis_engine.hget("modrinth", <name>);
\* TrustableResponse(content=json.loads(x)).  hget answers None for a field
\* that is not there, and json.loads(None) raises TypeError
modrinth_tag(h) ==
    IF "modrinth" \in kv
    THEN Out(TrustableResponse(h, FALSE, <<>>, {}, TRUE), <<>>)
    ELSE Out(ErrorResponse(h, FALSE, <<>>), <<>>)

modrinth_tag_categories == modrinth_tag("modrinth_tag_categories")
modrinth_tag_loaders == modrinth_tag("modrinth_tag_loaders")
modrinth_tag_game_versions == modrinth_tag("modrinth_tag_game_versions")
modrinth_tag_donation_platforms == modrinth_tag("modrinth_tag_donation_platforms")
modrinth_tag_project_types == modrinth_tag("modrinth_tag_project_types")
modrinth_tag_side_types == modrinth_tag("modrinth_tag_side_types")

----------------------------------------------------------------------------
(* Records *)

Mod(id, found) == [kind |-> "mod", id |-> id, found |-> found, sync_at |-> now]
File(id, modId, found) ==
    [kind |-> "file", id |-> id, modId |-> modId, found |-> found, sync_at |-> now]
Fingerprint(id, file, found) ==
    [kind |-> "fingerprint", id |-> id, file |-> file, found |-> found, sync_at |-> now]

Project(id, slug, found) ==
    [kind |-> "project", id |-> id, slug |-> slug, found |-> found, sync_at |-> now]
Version(id, project_id, slug, found) ==
    [kind |-> "version", id |-> id, project_id |-> project_id, slug |-> slug,
     found |-> found, sync_at |-> now]
MFile(id, version_id, slug, found) ==
    [kind |-> "mfile", id |-> id, version_id |-> version_id, slug |-> slug,
     found |-> found, sync_at |-> now]

Kinds == {"mod", "file", "fingerprint", "project", "version", "mfile"}

\* a store that applies the first model of a batch only
save_first(st, models) ==
    IF models = <<>> THEN st
    ELSE [st EXCEPT ![Head(models).kind] =
            {o \in @ : o.id # Head(models).id} \cup {Head(models)}]

\* engine.save_all(models): upsert by primary key, in list order
RECURSIVE save_all(_, _)
save_all(st, models) ==
    IF models = <<>> THEN st
    ELSE LET m == Head(models)
         IN  save_all([st EXCEPT ![m.kind] = {o \in @ : o.id # m.id} \cup {m}],
                      Tail(models))

\* no job ran in this step
NoJob == [job |-> Call("none", "", <<>>), up |-> "none", ok |-> FALSE]

\* a job that answers a failure with a not-found record of its own
WroteTombstone == [ok |-> TRUE, models |-> <<Project(3, 3, FALSE)>>, tasks |-> <<>>]

\* what a job did: raised (nothing written) or committed `models`; `tasks` are
\* the names it gave to add_http_task on its way, in order
Raised == [ok |-> FALSE, models |-> <<>>, tasks |-> <<>>]
Committed(models) == [ok |-> TRUE, models |-> models, tasks |-> <<>>]

RECURSIVE Flatten(_)
Flatten(ss) == IF ss = <<>> THEN <<>> ELSE Head(ss) \o Flatten(Tail(ss))

----------------------------------------------------------------------------
(* Catalog A sync jobs (app.sync.curseforge, consumed from app.sync_queue)  *)

sync_mutil_mods(modIds) ==
    Committed([i \in DOMAIN modIds |-> Mod(modIds[i], modIds[i] \in UpstreamMods)])

sync_mutil_files(fileIds) ==
    Committed([i \in DOMAIN fileIds |->
                 IF fileIds[i] \in UpstreamFiles
                 THEN File(fileIds[i], UpstreamFileMod(fileIds[i]), TRUE)
                 ELSE File(fileIds[i], 0, FALSE)])

sync_fingerprints(fingerprints) ==
    Committed([i \in DOMAIN fingerprints |->
                 IF fingerprints[i] \in UpstreamFingerprints
                 THEN Fingerprint(fingerprints[i], UpstreamFingerprintFile(fingerprints[i]), TRUE)
                 ELSE Fingerprint(fingerprints[i], 0, FALSE)])

----------------------------------------------------------------------------
(* Catalog B sync jobs (app/sync/modrinth.py)                               *)

\* Project(success=False, id=project_id, slug=project_id)
ProjectTombstone(project_id) == Project(project_id, project_id, FALSE)
\* Version(success=False, id=version_id)
VersionTombstone(version_id) == Version(version_id, 0, 0, FALSE)
\* File(success=False, hash=hash)
FileTombstone(hash) == MFile(hash, 0, 0, FALSE)

\* a normalizer that leaves file["version_id"] = version["id"] out
VersionModelsUnlinked(v, slug) ==
    [i \in DOMAIN UpstreamFilesOf(v) |-> MFile(UpstreamFilesOf(v)[i], 0, slug, TRUE)]
    \o <<Version(v, UpstreamProjectOf(v), slug, TRUE)>>

\* the File / Version models of one upstream version payload
VersionModels(v, slug) ==
    [i \in DOMAIN UpstreamFilesOf(v) |-> MFile(UpstreamFilesOf(v)[i], v, slug, TRUE)]
    \o <<Version(v, UpstreamProjectOf(v), slug, TRUE)>>

\* returns the models, or None (modelled as Raised: every caller does
\* models.extend(...) on the result, which raises TypeError on None).  `up`
\* is how the upstream answers this job: under "gone" the project has been
\* removed since the job's first request, and its version list answers 404
sync_project_all_version(project_id, slug, up) ==
    LET project == {p \in store["project"] : p.id = project_id}
        known == UpstreamResolve(project_id)
        slug2 == IF slug # 0 THEN slug
                 ELSE IF project # {} THEN (CHOOSE p \in project : TRUE).slug
                 ELSE IF known # {} THEN UpstreamSlug(CHOOSE p \in known : TRUE)
                 ELSE 0
        p404 == slug = 0 /\ project = {} /\ known = {}
    IN  IF p404 \/ known = {} \/ up = "gone" THEN Raised
        ELSE LET vs == UpstreamVersionsAt(CHOOSE p \in known : TRUE, up)
             IN  Committed(Flatten([i \in DOMAIN vs |-> VersionModels(vs[i], slug2)]))

\* if mcim_config.file_cdn: the loop reads model.hashes.sha512 of every model,
\* in list order, before the isinstance(model, File) test.  Only a File the
\* upstream returned has hashes: the read raises AttributeError at the first
\* Project, Version or not-found File of the list, after the downloads of the
\* Files before it have been scheduled and before save_all
submit_models(models) ==
    LET plain == {i \in DOMAIN models : ~(models[i].kind = "mfile" /\ models[i].found)}
        stop == IF plain = {} THEN Len(models) + 1
                ELSE CHOOSE i \in plain : \A j \in plain : i <= j
        names == [i \in 1..(stop - 1) |-> models[i].id]
        tasks == SelectSeq(names, LAMBDA n : n \notin mirror.disk)
    IN  IF ~file_cdn THEN Committed(models)
        ELSE IF plain # {} THEN [Raised EXCEPT !.tasks = tasks]
        ELSE [Committed(models) EXCEPT !.tasks = tasks]

sync_project(project_id, up) ==
    LET known == UpstreamResolve(project_id)
    IN  IF known = {} THEN submit_models(<<ProjectTombstone(project_id)>>)
        ELSE LET p == CHOOSE x \in known : TRUE
                 rest == sync_project_all_version(project_id, UpstreamSlug(p), up)
             IN  IF ~rest.ok THEN Raised
                 ELSE submit_models(<<Project(p, UpstreamSlug(p), TRUE)>> \o rest.models)

\* process_version_resp(res, models): the function takes one argument, so the
\* call raises TypeError whenever the version exists upstream
sync_version(version_id, up) ==
    IF version_id \notin VersionsHeld(up)
    THEN submit_models(<<VersionTombstone(version_id)>>)
    ELSE Raised

sync_multi_projects_all_version(project_ids, slugs, up) ==
    LET parts == [i \in DOMAIN project_ids |->
                    sync_project_all_version(project_ids[i],
                        IF slugs # {} THEN UpstreamSlug(project_ids[i]) ELSE 0, up)]
    IN  IF slugs # {} /\ ~(Range(project_ids) \subseteq slugs) THEN Raised  \* KeyError
        ELSE IF \E i \in DOMAIN parts : ~parts[i].ok THEN Raised
        ELSE Committed(Flatten([i \in DOMAIN parts |-> parts[i].models]))

\* the bulk endpoints answer with the entities they know among the ids asked,
\* or ("not_found") with 404 for the whole request
sync_multi_projects(project_ids, up) ==
    LET res == SetToSeq(Range(project_ids) \cap UpstreamProjects)
        rest == sync_multi_projects_all_version(project_ids, Range(res), up)
    IN  IF up = "not_found"
        THEN submit_models([i \in DOMAIN project_ids |-> ProjectTombstone(project_ids[i])])
        ELSE IF ~rest.ok THEN Raised
        ELSE submit_models([i \in DOMAIN res |-> Project(res[i], UpstreamSlug(res[i]), TRUE)]
                           \o rest.models)

process_multi_versions(res) ==
    Flatten([i \in DOMAIN res |-> VersionModels(res[i], 0)])

sync_multi_versions(version_ids, up) ==
    LET res == SetToSeq(Range(version_ids) \cap VersionsHeld(up))
        rest == sync_multi_projects_all_version(
                    [i \in DOMAIN res |-> UpstreamProjectOf(res[i])], {}, up)
    IN  IF up = "not_found"
        THEN submit_models([i \in DOMAIN version_ids |-> VersionTombstone(version_ids[i])])
        ELSE IF ~rest.ok THEN Raised
        ELSE submit_models(process_multi_versions(res) \o rest.models)

process_version_resp(res) == VersionModels(res, 0)

\* a job that takes a hash the store already holds for one the upstream lost
sync_hash_unless_stored(hash, up) ==
    IF \E m \in store["mfile"] : m.found /\ m.id = hash
    THEN submit_models(<<FileTombstone(hash)>>)
    ELSE submit_models(process_version_resp(UpstreamVersionOfHash(hash)))

sync_hash(hash, up) ==
    IF hash \notin HashesHeld(up)
    THEN submit_models(<<FileTombstone(hash)>>)
    ELSE LET res == UpstreamVersionOfHash(hash)
             rest == sync_project_all_version(UpstreamProjectOf(res), 0, up)
         IN  IF ~rest.ok THEN Raised
             ELSE submit_models(process_version_resp(res) \o rest.models)

\* a normalizer that marks what it emits as not found
process_multi_hashes_not_found(res) ==
    Flatten([i \in DOMAIN res |->
        [j \in DOMAIN VersionModels(res[i], 0) |->
            [VersionModels(res[i], 0)[j] EXCEPT !.found = FALSE]]])

process_multi_hashes(res) ==
    Flatten([i \in DOMAIN res |-> VersionModels(res[i], 0)])

sync_multi_hashes(hashes, up) ==
    LET res == SetToSeq({UpstreamVersionOfHash(x) : x \in Range(hashes) \cap HashesHeld(up)})
        rest == sync_multi_projects_all_version(
                    [i \in DOMAIN res |-> UpstreamProjectOf(res[i])], {}, up)
    IN  IF up = "not_found"
        THEN submit_models([i \in DOMAIN hashes |-> FileTombstone(hashes[i])])
        ELSE IF ~rest.ok THEN Raised
        ELSE submit_models(process_multi_hashes(res) \o rest.models)

\* six requests to the upstream, then six hset("modrinth", ...): a request that
\* fails raises before anything is written
sync_tags(up) == IF up = "answers" THEN kv \cup {"modrinth"} ELSE kv

\* dramatiq calls the actor with the keyword the handler gave to send(); a
\* keyword that is not a parameter of the actor raises TypeError
Actor(job, up) ==
    CASE job.fn = "sync_project" -> sync_project(job.keys[1], up)
      [] job.fn = "sync_version" -> sync_version(job.keys[1], up)
      [] job.fn = "sync_multi_projects" ->
            IF job.kw = "project_ids" THEN sync_multi_projects(job.keys, up) ELSE Raised
      [] job.fn = "sync_multi_versions" ->
            IF job.kw = "version_ids" THEN sync_multi_versions(job.keys, up) ELSE Raised
      [] job.fn = "sync_hash" -> sync_hash(job.keys[1], up)
      [] job.fn = "sync_multi_hashes" -> sync_multi_hashes(job.keys, up)
      [] job.fn = "add_curseforge_modIds_to_queue" -> sync_mutil_mods(job.keys)
      [] job.fn = "add_curseforge_fileIds_to_queue" -> sync_mutil_files(job.keys)
      [] job.fn = "add_curseforge_fingerprints_to_queue" -> sync_fingerprints(job.keys)

----------------------------------------------------------------------------
(* The read-through cache service (webapi.py): its own application, with  *)
(* its own database; it has no queue and no workers.                       *)

\* 60 * 60 * 4, in ticks
CacheTTL == 1

\* slugs, as numbers apart from the ids
WebSlugs == {11, 12}
\* no insert of webapi.py gives column slug of curseforge_mod_info a value
NoSlug == 0

\* JSONResponse(status_code=..., content=...); calls holds the background
\* tasks the handler added; error is the "error" entry of a failure's content
WebResponse(h, req, status, data, work) ==
    [handler |-> h, force |-> FALSE, req |-> req, kind |-> "Json",
     trustable |-> FALSE, data |-> data, exact |-> <<>>, unmatched |-> <<>>,
     inline |-> work, status |-> status, error |-> ""]

\* what a callback did: returned a response, or raised
Returned(r, rows, tasks) == [raised |-> "none", status |-> 0, resp |-> r, cache |-> rows, calls |-> tasks]
RaisedIn(exc, status, r, rows) == [raised |-> exc, status |-> status, resp |-> r, cache |-> rows, calls |-> <<>>]

\* cf_api.get_mod(modid): the upstream's answer as the status the client class
\* turns into StatusCodeException when it is not 200.  An upstream that cannot
\* be reached within ClientTimeout(total=timeout) gives no status: the request
\* raises the client library's timeout error
get_mod_status(modid, up) ==
    IF up = "fails" THEN 503 ELSE IF modid \in UpstreamMods THEN 200 ELSE 404

\* the insert left out
ReplaceNothing(rows, row) == rows

\* insert(..., replace=True): one row per modid
Replace(rows, row) == {r \in rows : r.modid # row.modid} \cup {row}

CacheRow(modid) == [modid |-> modid, slug |-> NoSlug, status |-> 200, time |-> now, cachetime |-> now]

\* the callback of GET /curseforge/mod/{modid_slug}, lookup by modid
\* (slug = None) or by slug (modid = None), on the table holding `rows`;
\* background_tasks says whether the caller passed one
_curseforge_get_mod(rows, h, key, query, background_tasks, up) ==
    LET result == IF query = "slug" THEN {r \in rows : r.slug = key}
                  ELSE {r \in rows : r.modid = key}
        miss == result = {} \/ \E r \in result : r.status # 200
        stale == \E r \in result : now - r.cachetime > CacheTTL
        \* the modid the fetch is made for
        modid == IF query = "slug" /\ ~miss THEN (CHOOSE r \in result : TRUE).modid ELSE key
        fetches == IF miss THEN 1 ELSE IF ~stale THEN 0 ELSE IF query = "slug" THEN 2 ELSE 1
        work == [i \in 1..fetches |-> "cf_api.get_mod"]
        tasks == IF background_tasks /\ query = "modid"
                 THEN <<Call("mod_notification", "", <<key>>)>> ELSE <<>>
    IN  IF miss /\ query = "slug"
        THEN Returned(WebResponse(h, <<key>>, 404, {}, <<>>), rows, <<>>)
        ELSE IF fetches = 0
        THEN Returned(WebResponse(h, <<key>>, 200, result, <<>>), rows, tasks)
        ELSE IF up = "unreachable"
        THEN RaisedIn("TimeoutError", 0,
                      WebResponse(h, <<key>>, 0, {}, <<"cf_api.get_mod">>), rows)
        ELSE IF get_mod_status(modid, up) # 200
        THEN RaisedIn("StatusCodeException", get_mod_status(modid, up),
                      WebResponse(h, <<key>>, 0, {}, <<"cf_api.get_mod">>), rows)
        ELSE Returned(WebResponse(h, <<key>>, 200, {CacheRow(modid)}, work),
                      Replace(rows, CacheRow(modid)), tasks)

\* a wrapper that catches StatusCodeException only
api_json_middleware_status_only(done) ==
    IF done.raised = "StatusCodeException"
    THEN [done EXCEPT !.raised = "none", !.resp.status = done.status,
                      !.resp.error = IF done.status = 404 THEN "DataNotExists"
                                     ELSE "StatusCodeException"]
    ELSE done

\* the wrapper of every handler: what the callback returned, or the response
\* made of what it raised
api_json_middleware(done) ==
    IF done.raised = "none" THEN done
    ELSE IF done.raised = "StatusCodeException"
    THEN IF done.status = 404
         THEN [done EXCEPT !.raised = "none", !.resp.status = 404,
                           !.resp.error = "DataNotExists"]
         ELSE [done EXCEPT !.raised = "none", !.resp.status = done.status,
                           !.resp.error = "StatusCodeException"]
    ELSE [done EXCEPT !.raised = "none", !.resp.status = 500,
                      !.resp.error = "StatusCodeException"]

\* the function under the decorator: type(modid_slug) is str
get_mod_callback(modid_slug, up) ==
    IF modid_slug \in WebSlugs
    THEN _curseforge_get_mod(cache, "get_mod", modid_slug, "slug", TRUE, up)
    ELSE _curseforge_get_mod(cache, "get_mod", modid_slug, "modid", TRUE, up)

get_mod(modid_slug, up) == api_json_middleware(get_mod_callback(modid_slug, up))

\* for modid in set(item.modid): data = await _curseforge_get_mod(modid);
\* modids_data.append(data).  `todo` is the set in the order of the loop, acc
\* what the callback has done so far
RECURSIVE get_mods_loop(_, _, _)
get_mods_loop(todo, acc, up) ==
    IF todo = <<>> \/ acc.raised # "none" THEN acc
    ELSE LET one == _curseforge_get_mod(acc.cache, "get_mods", Head(todo), "modid", FALSE, up)
             r == [acc.resp EXCEPT !.data = @ \cup one.resp.data,
                                   !.inline = @ \o one.resp.inline]
         IN  get_mods_loop(Tail(todo),
                           [one EXCEPT !.resp = r, !.calls = acc.calls \o one.calls],
                           up)

\* the set is walked in the order of its elements' hashes, which for the ids
\* of a request is their order
get_mods_callback(modid, up) ==
    get_mods_loop(SetToSeq(Range(modid)),
                  Returned(WebResponse("get_mods", modid, 200, {}, <<>>), cache, <<>>),
                  up)

get_mods(modid, up) == api_json_middleware(get_mods_callback(modid, up))

----------------------------------------------------------------------------
(* webapi.py, the Modrinth side: tables modrinth_project_info and           *)
(* modrinth_tag_info                                                        *)

\* a request of mr_api that does not get its answer: StatusCodeException of
\* the upstream's status, or the client library's timeout error
MrRaised(h, req, status, up, work) ==
    IF up = "unreachable"
    THEN RaisedIn("TimeoutError", 0, WebResponse(h, req, 0, {}, work), mr_tables)
    ELSE RaisedIn("StatusCodeException", status, WebResponse(h, req, 0, {}, work), mr_tables)

\* _modrinth_sync_tag_category and its three siblings: one request, one
\* insert(..., replace=True) with status=200 and time=int(time.time())
_modrinth_sync_tag(h, slug, up) ==
    LET row == [slug |-> slug, status |-> 200, time |-> now]
    IN  IF up # "answers" THEN MrRaised(h, <<slug>>, 503, up, <<"mr_api.get_tag">>)
        ELSE Returned(WebResponse(h, <<slug>>, 200, {row}, <<"mr_api.get_tag">>),
                      [mr_tables EXCEPT !.tag = {r \in @ : r.slug # slug} \cup {row}],
                      <<>>)

\* get_modrinth_tag_category, _loader, _game_version, _license: the same body
\* on the row of their slug.  The age is taken as cachetime - int(time.time());
\* the handlers are not wrapped by api_json_middleware
get_modrinth_tag(slug, up) ==
    LET h == "get_modrinth_tag"
        query == {r \in mr_tables.tag : r.slug = slug}
    IN  IF query = {} THEN _modrinth_sync_tag(h, slug, up)
        ELSE IF \A r \in query : r.time - now < CacheTTL /\ r.status = 200
        THEN Returned(WebResponse(h, <<slug>>, 200, query, <<>>), mr_tables, <<>>)
        ELSE _modrinth_sync_tag(h, slug, up)

\* mr_api.get_project(slug=idslug), then the insert of the project's row
_modrinth_sync_project(h, idslug, up) ==
    LET known == UpstreamResolve(idslug)
        work == <<"mr_api.get_project">>
    IN  IF up # "answers" THEN MrRaised(h, <<idslug>>, 503, up, work)
        ELSE IF known = {} THEN MrRaised(h, <<idslug>>, 404, up, work)
        ELSE LET p == CHOOSE x \in known : TRUE
                 row == [project_id |-> p, slug |-> UpstreamSlug(p), status |-> 200,
                         time |-> now, cachetime |-> now]
             IN  Returned(WebResponse(h, <<idslug>>, 200, {row}, work),
                          [mr_tables EXCEPT
                              !.project = {r \in @ : r.project_id # p} \cup {row}],
                          <<>>)

\* the row by project_id, else the row by slug; the status column is not read
_modrinth_get_project(h, idslug, up) ==
    LET id_query == {r \in mr_tables.project : r.project_id = idslug}
        slug_query == {r \in mr_tables.project : r.slug = idslug}
        query == IF id_query # {} THEN id_query ELSE slug_query
    IN  IF query = {} THEN _modrinth_sync_project(h, idslug, up)
        ELSE IF \E r \in query : now - r.cachetime > CacheTTL
        THEN _modrinth_sync_project(h, idslug, up)
        ELSE Returned(WebResponse(h, <<idslug>>, 200, query, <<>>), mr_tables, <<>>)

\* project_data = (await _modrinth_get_project(idslug))["data"]: what
\* _modrinth_get_project returns is a JSONResponse, and subscripting it raises
\* TypeError, after the project's row has been read or written and before
\* table modrinth_version_info is read
get_modrinth_project_versions(idslug, up) ==
    LET h == "get_modrinth_project_versions"
        got == _modrinth_get_project(h, idslug, up)
    IN  api_json_middleware(
            IF got.raised # "none" THEN got
            ELSE RaisedIn("TypeError", 0,
                          WebResponse(h, <<idslug>>, 0, {}, got.resp.inline), got.cache))

----------------------------------------------------------------------------
(* The state machine *)

\* the service starts over the store `st`, with the file mirror on or off,
\* nothing submitted and nothing on disk
InitWith(st, cdn) ==
    /\ store = st
    /\ now = 0
    /\ queue = <<>>
    /\ resp = NoResp
    /\ calls = <<>>
    /\ file_cdn = cdn
    /\ ran = 0
    /\ last = NoJob
    /\ kv = {}
    /\ cache = {}
    /\ built = <<>>
    /\ mirror = [disk |-> {}, tasks |-> <<>>]
    /\ mr_tables = [project |-> {}, tag |-> {}]

\* an empty store; the deployment mirrors no files (file_cdn off), so
\* submit_models only saves
Init == InitWith([k \in Kinds |-> {}], FALSE)

\* the same, for a deployment that may mirror the files
InitMirror == \E cdn \in BOOLEAN : InitWith([k \in Kinds |-> {}], cdn)

\* the application is between two steps: the response of the last request is
\* out, the last job is over and no job waits
Idle == resp = NoResp /\ last = NoJob /\ queue = <<>>

\* one request: the handler's response and its enqueue calls.  Handlers never
\* read the queue; requests are taken one after the other and while no job
\* waits, so that the jobs a request submits are the only ones in the queue
Request(out) ==
    /\ Idle
    /\ resp' = out.resp
    /\ calls' = out.calls
    /\ queue' = queue \o out.calls
    /\ last' = NoJob
    /\ UNCHANGED <<mr_tables, mirror, built, store, now, file_cdn, ran, kv, cache>>

ModKeys == KeyLists(ModIds, MaxReqLen)
FileKeys == KeyLists(FileIds, MaxReqLen)
FingerprintKeys == KeyLists(FingerprintIds, MaxReqLen)
ProjectKeys == KeyLists(ProjectIds, MaxReqLen)
VersionKeys == KeyLists(VersionIds, MaxReqLen)
HashKeys == KeyLists(HashIds, MaxReqLen)

CurseforgeMod == \E modId \in ModIds, force \in BOOLEAN : Request(curseforge_mod(modId, force))
CurseforgeMods == \E modIds \in ModKeys, force \in BOOLEAN : Request(curseforge_mods(modIds, force))
CurseforgeModFiles ==
    \E modId \in {m \in ModIds : m > 30000}, index \in 0..1, force \in BOOLEAN :
        Request(curseforge_mod_files(modId, index, force))
CurseforgeFiles == \E fileIds \in FileKeys, force \in BOOLEAN : Request(curseforge_files(fileIds, force))
CurseforgeModFile ==
    \E modId \in ModIds, fileId \in FileIds, force \in BOOLEAN :
        Request(curseforge_mod_file(modId, fileId, force))
CurseforgeModFileDownloadUrl ==
    \E modId \in ModIds, fileId \in FileIds :
        Request(curseforge_mod_file_download_url(modId, fileId))
CurseforgeFingerprints ==
    \E fingerprints \in FingerprintKeys, force \in BOOLEAN :
        Request(curseforge_fingerprints(fingerprints, force))
CurseforgeFingerprints432 ==
    \E fingerprints \in FingerprintKeys, force \in BOOLEAN :
        Request(curseforge_fingerprints_432(fingerprints, force))
\* a search result lists a mod once
CurseforgeSearch ==
    \E res \in SUBSET SearchIds, up \in {"answers", "fails"} :
        Request(curseforge_search(SetToSeq(res), up))
\* the one handler that writes while it serves: the blob it stores itself
CurseforgeCategories ==
    \E up \in {"answers", "fails"} :
        LET out == curseforge_categories(up)
        IN  /\ Idle
            /\ resp' = out.resp
            /\ calls' = <<>>
            /\ kv' = out.kv
            /\ last' = NoJob
            /\ UNCHANGED <<mr_tables, mirror, built, store, now, queue, file_cdn, ran, cache>>

ModrinthProject == \E idslug \in ProjectIds \cup ProjectSlugs : Request(modrinth_project(idslug))
ModrinthProjects == \E Ids \in ProjectKeys : Request(modrinth_projects(Ids))
ModrinthProjectVersions ==
    \E idslug \in ProjectIds \cup ProjectSlugs : Request(modrinth_project_versions(idslug))
ModrinthVersion == \E version_id \in VersionIds : Request(modrinth_version(version_id))
ModrinthVersions == \E ids_list \in VersionKeys : Request(modrinth_versions(ids_list))
ModrinthFile == \E hash \in HashIds : Request(modrinth_file(hash))
ModrinthFiles == \E hashes \in HashKeys : Request(modrinth_files(hashes))
\* a client that asks for the two files of version 102
ModrinthFilesOfVersion ==
    \E hashes \in KeyLists(Range(UpstreamFilesOf(102)), MaxReqLen) :
        Request(modrinth_files(hashes))
ModrinthTag ==
    \E out \in {modrinth_tag_categories, modrinth_tag_loaders, modrinth_tag_game_versions,
                 modrinth_tag_donation_platforms, modrinth_tag_project_types,
                 modrinth_tag_side_types} :
        Request(out)

\* a worker takes any waiting job and runs it to its end; `up` says how the
\* upstream answers the job's requests: from what it holds ("answers"), with a
\* failure (timeout, 5xx, a 4xx other than 404), in which case the job raises
\* ("fails"), or from what it holds but for the version list of the job's
\* project, removed meanwhile ("gone")
RunJobOn(i, up) ==
    LET done == IF up = "fails" THEN Raised ELSE Actor(queue[i], up)
    IN  /\ ran' = IF ran < MaxJobs THEN ran + 1 ELSE ran
        /\ last' = [job |-> queue[i], up |-> up, ok |-> done.ok]
        /\ store' = IF done.ok THEN save_all(store, done.models) ELSE store
        /\ queue' = [j \in 1..(Len(queue) - 1) |-> IF j < i THEN queue[j] ELSE queue[j + 1]]
        /\ mirror' = [mirror EXCEPT !.tasks = done.tasks]
        /\ resp' = NoResp
        /\ calls' = <<>>
        /\ UNCHANGED <<mr_tables, built, now, file_cdn, kv, cache>>

RunJob ==
    \E i \in DOMAIN queue, up \in {"answers", "fails", "gone"} :
        ran < MaxJobs /\ RunJobOn(i, up)

\* a job that runs after the upstream has published what it did not hold
RunJobLater == \E i \in DOMAIN queue : ran < MaxJobs /\ RunJobOn(i, "published")

\* a bulk job whose one request the upstream answers with 404
BulkJobs == {"sync_multi_projects", "sync_multi_versions", "sync_multi_hashes"}
RunJobNotFound ==
    \E i \in DOMAIN queue :
        ran < MaxJobs /\ queue[i].fn \in BulkJobs /\ RunJobOn(i, "not_found")

\* a job whose requests the upstream answered and whose one
\* mongodb_engine.save_all(models) raises: the store refuses the batch as a
\* unit, the exception leaves the actor, and nothing of the batch is stored
StoreRefuses ==
    \E i \in DOMAIN queue :
        /\ ran < MaxJobs
        /\ Actor(queue[i], "answers").ok
        /\ ran' = ran + 1
        /\ last' = [job |-> queue[i], up |-> "refused", ok |-> FALSE]
        /\ queue' = [j \in 1..(Len(queue) - 1) |-> IF j < i THEN queue[j] ELSE queue[j + 1]]
        /\ mirror' = [mirror EXCEPT !.tasks = Actor(queue[i], "answers").tasks]
        /\ resp' = NoResp
        /\ calls' = <<>>
        /\ UNCHANGED <<mr_tables, built, store, now, file_cdn, kv, cache>>

\* a worker of the pool, beside others: it takes a job and has its requests
\* answered.  A job that raises ends there; otherwise the worker has built the
\* job's models and is on its way to submit_models.  A model's sync_at is
\* filled in when the model is built (default_factory=datetime.utcnow), before
\* the job's later requests and before submit_models.  The pool has MaxJobs
\* workers, and each holds one job at a time
BuildOn(i, up) ==
    LET done == IF up = "fails" THEN Raised ELSE Actor(queue[i], up)
    IN  /\ Len(built) < MaxJobs
        /\ ran' = IF ran < MaxJobs THEN ran + 1 ELSE ran
        /\ built' = IF done.ok
                     THEN Append(built, [job |-> queue[i], models |-> done.models])
                     ELSE built
        /\ last' = IF done.ok THEN NoJob ELSE [job |-> queue[i], up |-> up, ok |-> FALSE]
        /\ queue' = [j \in 1..(Len(queue) - 1) |-> IF j < i THEN queue[j] ELSE queue[j + 1]]
        /\ mirror' = [mirror EXCEPT !.tasks = done.tasks]
        /\ resp' = NoResp
        /\ calls' = <<>>
        /\ UNCHANGED <<mr_tables, store, now, file_cdn, kv, cache>>

Build ==
    \E i \in DOMAIN queue, up \in {"answers", "fails", "gone"} :
        ran < MaxJobs /\ BuildOn(i, up)

\* a pool in which a job that saves supersedes the jobs in flight for its key
CommitSuperseding(n) ==
    /\ n \in DOMAIN built
    /\ built' = SelectSeq(built, LAMBDA b : b.job # built[n].job)
    /\ store' = save_all(store, built[n].models)
    /\ last' = [job |-> built[n].job, up |-> "answers", ok |-> TRUE]
    /\ resp' = NoResp
    /\ calls' = <<>>
    /\ UNCHANGED <<mr_tables, mirror, now, queue, file_cdn, ran, kv, cache>>

\* the n-th job in flight reaches mongodb_engine.save_all(models): the pool
\* orders nothing, so any job in flight may be the next to save
CommitAt(n) ==
    /\ n \in DOMAIN built
    /\ built' = [j \in 1..(Len(built) - 1) |-> IF j < n THEN built[j] ELSE built[j + 1]]
    /\ store' = save_all(store, built[n].models)
    /\ last' = [job |-> built[n].job, up |-> "answers", ok |-> TRUE]
    /\ resp' = NoResp
    /\ calls' = <<>>
    /\ UNCHANGED <<mr_tables, mirror, now, queue, file_cdn, ran, kv, cache>>

Commit == \E n \in 1..MaxJobs : CommitAt(n)

\* the pool with an upstream that keeps answering: it takes whatever waits,
\* without end
PoolWorker == \E i \in DOMAIN queue : BuildOn(i, "answers")

\* every request for one catalog-B entity by its key, as what the handler
\* answers and enqueues when the queue takes its jobs
Reads ==
    {modrinth_project(idslug) : idslug \in ProjectIds \cup ProjectSlugs}
    \cup {modrinth_version(version_id) : version_id \in VersionIds}
    \cup {modrinth_file(hash) : hash \in HashIds}

\* a request served while the queue's broker cannot be reached: the handler's
\* first actor.send(...) raises, no handler catches it, and the handler ends
\* there.  The handlers of several keys send the same way
EnqueueRefused ==
    \E out \in Reads :
        /\ Idle
        /\ out.calls # <<>>
        /\ resp' = Inline(ErrorResponse(out.resp.handler, FALSE, <<>>), out.resp.inline)
        /\ calls' = <<>>
        /\ last' = NoJob
        /\ UNCHANGED <<mr_tables, mirror, built, store, now, queue, file_cdn, ran, kv, cache>>

\* how the upstream answers a request of the cache service: from what it
\* holds, with a 503, or not within the timeout
WebUps == {"answers", "fails", "unreachable"}

\* what the client gets of a wrapped handler: its response, or an error of
\* the server when the exception left the wrapper
Answered(done) ==
    IF done.raised = "none" THEN done.resp ELSE [done.resp EXCEPT !.kind = "Error"]

\* one request to the cache service: the rows it writes are written when it
\* answers; the background task it added runs later, on tables of its own
GetMod ==
    \E modid_slug \in ModIds \cup WebSlugs, up \in WebUps :
        LET done == get_mod(modid_slug, up)
        IN  /\ Idle
            /\ resp' = Answered(done)
            /\ calls' = done.calls
            /\ cache' = done.cache
            /\ last' = NoJob
            /\ UNCHANGED <<mr_tables, mirror, built, store, now, queue, file_cdn, ran, kv>>

GetMods ==
    \E modid \in ModKeys, up \in WebUps :
        LET done == get_mods(modid, up)
        IN  /\ Idle
            /\ resp' = Answered(done)
            /\ calls' = done.calls
            /\ cache' = done.cache
            /\ last' = NoJob
            /\ UNCHANGED <<mr_tables, mirror, built, store, now, queue, file_cdn, ran, kv>>

\* one request to the Modrinth side of the cache service
WebRequest(done) ==
    /\ Idle
    /\ resp' = Answered(done)
    /\ calls' = done.calls
    /\ mr_tables' = done.cache
    /\ last' = NoJob
    /\ UNCHANGED <<store, now, queue, file_cdn, ran, kv, cache, built, mirror>>

\* the tags with a handler are category, loader, game_version and license;
\* clients ask for two of the four
TagsAsked == {"category", "license"}
GetModrinthTag ==
    \E slug \in TagsAsked, up \in WebUps : WebRequest(get_modrinth_tag(slug, up))
GetModrinthProjectVersions ==
    \E idslug \in ProjectIds \cup ProjectSlugs, up \in WebUps :
        WebRequest(get_modrinth_project_versions(idslug, up))

\* no handler sends sync_tags: the scheduler starts it
SyncTags ==
    \E up \in {"answers", "fails"} :
        /\ ran < MaxJobs
        /\ ran' = ran + 1
        /\ last' = [job |-> Call("sync_tags", "", <<>>), up |-> up, ok |-> up = "answers"]
        /\ kv' = sync_tags(up)
        /\ resp' = NoResp
        /\ calls' = <<>>
        /\ UNCHANGED <<mr_tables, mirror, built, store, now, queue, file_cdn, cache>>

\* the worker pool with an upstream that keeps answering: it runs whatever
\* waits, without end
Worker == \E i \in DOMAIN queue : RunJobOn(i, "answers")

\* aria2 ends a download it was given: the file is on disk under its name
Downloaded ==
    \E n \in Range(mirror.tasks) \ mirror.disk :
        /\ mirror' = [mirror EXCEPT !.disk = @ \cup {n}]
        /\ UNCHANGED <<mr_tables, store, now, queue, resp, calls, file_cdn, ran, last, kv, cache, built>>

\* the request or the job of the last step is over and nothing waits
Settle ==
    /\ resp # NoResp \/ last # NoJob
    /\ queue = <<>>
    /\ resp' = NoResp
    /\ calls' = <<>>
    /\ last' = NoJob
    /\ UNCHANGED <<mr_tables, mirror, built, store, now, queue, file_cdn, ran, kv, cache>>

Tick ==
    /\ now < MaxTime
    /\ now' = now + 1
    /\ resp' = NoResp
    /\ calls' = <<>>
    /\ last' = NoJob
    /\ UNCHANGED <<mr_tables, mirror, built, store, queue, file_cdn, ran, kv, cache>>

Next ==
    \/ CurseforgeMod \/ CurseforgeMods \/ CurseforgeModFiles \/ CurseforgeFiles
    \/ CurseforgeModFile \/ CurseforgeModFileDownloadUrl
    \/ CurseforgeFingerprints \/ CurseforgeFingerprints432 \/ CurseforgeSearch
    \/ ModrinthProject \/ ModrinthProjects \/ ModrinthProjectVersions
    \/ ModrinthVersion \/ ModrinthVersions \/ ModrinthFile \/ ModrinthFiles
    \/ CurseforgeCategories \/ ModrinthTag \/ SyncTags \/ EnqueueRefused
    \/ RunJob \/ Settle \/ Tick

Spec == Init /\ [][Next]_vars

\* each catalog on its own: its handlers, the workers and the clock
NextA ==
    \/ CurseforgeMod \/ CurseforgeMods \/ CurseforgeModFiles \/ CurseforgeFiles
    \/ CurseforgeModFile \/ CurseforgeModFileDownloadUrl
    \/ CurseforgeFingerprints \/ CurseforgeFingerprints432 \/ CurseforgeSearch
    \/ RunJob \/ Settle \/ Tick

NextB ==
    \/ ModrinthProject \/ ModrinthProjects \/ ModrinthProjectVersions
    \/ ModrinthVersion \/ ModrinthVersions \/ ModrinthFile \/ ModrinthFiles
    \/ RunJob \/ Settle \/ Tick

\* the lookups of one key by its primary key, of both catalogs
NextSingle == CurseforgeMod \/ ModrinthProject \/ ModrinthVersion \/ RunJob \/ Settle \/ Tick

\* the cache service alone
NextW == GetMod \/ GetMods \/ Settle \/ Tick

\* lookups of one key beside the handlers that work while they serve
NextInline ==
    \/ CurseforgeMod \/ ModrinthVersion \/ CurseforgeSearch \/ CurseforgeCategories
    \/ RunJob \/ Settle \/ Tick

\* both applications side by side: lookups of one key in each
NextReadThrough == CurseforgeMod \/ ModrinthVersion \/ GetMod \/ RunJob \/ Settle \/ Tick

\* the jobs of project and file lookups, with a store that may refuse a batch
NextCommit ==
    \/ ModrinthProject \/ ModrinthProjects \/ ModrinthFile
    \/ RunJob \/ StoreRefuses \/ Settle \/ Tick

\* project lookups served by a pool of workers whose jobs overlap
NextPool == ModrinthProject \/ ModrinthFile \/ Build \/ Commit \/ Settle \/ Tick

\* the lookups by hash and their jobs
NextHash == ModrinthFile \/ ModrinthFiles \/ RunJob \/ Settle \/ Tick

\* the batch lookups of catalog B and their bulk jobs
NextBulk ==
    \/ ModrinthProjects \/ ModrinthVersions \/ ModrinthFiles
    \/ RunJob \/ RunJobNotFound \/ Settle \/ Tick

SpecBulk == Init /\ [][NextBulk]_vars

\* the Modrinth side of the cache service alone
NextMr == GetModrinthTag \/ GetModrinthProjectVersions \/ Settle \/ Tick

SpecMr == Init /\ [][NextMr]_vars

\* project and file lookups and their jobs, with the file mirror on or off
NextMirror == ModrinthProject \/ ModrinthFile \/ RunJob \/ Downloaded \/ Settle \/ Tick

SpecMirror == InitMirror /\ [][NextMirror]_vars

\* the lookups by hash, with batches of hashes of one version
NextFiles == ModrinthFile \/ ModrinthFilesOfVersion \/ RunJob \/ Settle \/ Tick

SpecFiles == Init /\ [][NextFiles]_vars
SpecA == Init /\ [][NextA]_vars
SpecHash == Init /\ [][NextHash]_vars
SpecPool == Init /\ [][NextPool]_vars

\* the lookups of one key of catalog B, with an upstream that publishes
NextLater ==
    \/ ModrinthProject \/ ModrinthVersion \/ ModrinthFile
    \/ RunJob \/ RunJobLater \/ Settle \/ Tick

SpecLater == Init /\ [][NextLater]_vars

\* the lookups by hash served by the pool
NextHashPool == ModrinthFile \/ Build \/ Commit \/ Settle \/ Tick

SpecHashPool == Init /\ [][NextHashPool]_vars
SpecCommit == Init /\ [][NextCommit]_vars
SpecW == Init /\ [][NextW]_vars
SpecInline == Init /\ [][NextInline]_vars
SpecReadThrough == Init /\ [][NextReadThrough]_vars
SpecB == Init /\ [][NextB]_vars
SpecSingle == Init /\ [][NextSingle]_vars

\* project and version lookups with a fairly scheduled worker pool, an
\* upstream that keeps answering, and clients that ask again for every version
\* the upstream holds
NextLive == ModrinthProject \/ ModrinthVersion \/ Worker \/ Settle \/ Tick

\* project and version lookups served by a pool whose workers each go on with
\* the job they hold: the queue is served as long as a worker is free, and the
\* job longest in flight reaches its save
NextPoolLive == ModrinthProject \/ PoolWorker \/ Commit \/ Settle

SpecPoolLive ==
    /\ Init /\ [][NextPoolLive]_vars
    /\ WF_vars(PoolWorker)
    /\ WF_vars(CommitAt(1))

SpecLive ==
    /\ Init /\ [][NextLive]_vars
    /\ WF_vars(Worker)
    /\ WF_vars(Settle)
    /\ \A k \in UpstreamVersions \cap VersionIds : SF_vars(Request(modrinth_version(k)))

----------------------------------------------------------------------------
(* Vocabulary of the properties *)

BatchA == {"curseforge_mods", "curseforge_files",
           "curseforge_fingerprints", "curseforge_fingerprints_432"}
BatchB == {"modrinth_projects", "modrinth_versions"}
SingleA == {"curseforge_mod", "curseforge_mod_file", "curseforge_mod_file_download_url"}
SingleB == {"modrinth_project", "modrinth_version"}
ForceAware == {"curseforge_mod", "curseforge_mods", "curseforge_mod_files", "curseforge_files",
               "curseforge_mod_file", "curseforge_fingerprints", "curseforge_fingerprints_432"}

\* the collection a handler looks its keys up in
KindOf(h) ==
    CASE h \in {"curseforge_mod", "curseforge_mods"} -> "mod"
      [] h \in {"curseforge_files", "curseforge_mod_file",
                "curseforge_mod_file_download_url"} -> "file"
      [] h \in {"curseforge_fingerprints", "curseforge_fingerprints_432"} -> "fingerprint"
      [] h \in {"modrinth_project", "modrinth_projects"} -> "project"
      [] h \in {"modrinth_version", "modrinth_versions"} -> "version"
      [] h \in {"modrinth_file", "modrinth_files"} -> "mfile"

TTL(kind) ==
    CASE kind = "mod" -> ModTTL
      [] kind = "file" -> FileTTL
      [] kind = "fingerprint" -> FingerprintTTL
      [] kind = "project" -> ProjectTTL
      [] kind = "version" -> VersionTTL
      [] kind = "mfile" -> MFileTTL

Stale(m) == now - m.sync_at > TTL(m.kind)

\* a request step leaves store and clock alone, so in the state it leads to
\* `store` and `now` are what the handler read
NonForcedRead(hs) == resp.handler \in hs /\ ~resp.force

Requested == Range(resp.req)
Dispatched == UNION {Range(calls[i].keys) : i \in DOMAIN calls}
StoredFor(h, keys) ==
    {m \in store[KindOf(h)] : m.id \in keys \/ (h \in SingleB /\ m.slug \in keys)}
MissingKeys == Requested \ IdsOf(StoredFor(resp.handler, Requested))
StaleKeys == {m.id : m \in {x \in StoredFor(resp.handler, Requested) : Stale(x)}}

----------------------------------------------------------------------------
(* C1 *)

StalenessChecking == {"modrinth_project", "modrinth_projects", "modrinth_project_versions",
                      "modrinth_versions", "modrinth_file"}

C2_TombstoneNeverTrustableData ==
    (resp.kind = "Trustable" /\ ~resp.force /\ resp.trustable)
        => \A m \in resp.data : m.found

(* C3 *)

\* what a catalog-A batch handler reports as missing and as present
ReportedMissing ==
    IF resp.handler \in {"curseforge_fingerprints", "curseforge_fingerprints_432"}
    THEN Range(resp.unmatched) ELSE Dispatched
ReportedPresent ==
    IF resp.handler \in {"curseforge_fingerprints", "curseforge_fingerprints_432"}
    THEN Range(resp.exact) ELSE IdsOf(resp.data)

\* C3: in a non-forced catalog-A batch read the missing keys the handler
\* computes and the ids of the records it got from the store partition the
\* requested key set: their union is the request set and they are disjoint,
\* also when the request list repeats a key.
C3_MissingAndPresentPartitionRequest ==
    NonForcedRead(BatchA) =>
        /\ ReportedMissing \cup ReportedPresent = Requested
        /\ ReportedMissing \cap ReportedPresent = {}
        /\ ReportedPresent = IdsOf(StoredFor(resp.handler, Requested))

\* a batch with one key stored and one key missing
C3_Witness ==
    /\ NonForcedRead({"curseforge_fingerprints"})
    /\ ReportedMissing # {}
    /\ ReportedPresent # {}

(* C4 *)

\* C4: a non-forced batch read of an empty key list returns empty results
\* with trustable = true and makes no enqueue call.
C4_EmptyRequestTrustableNoDispatch ==
    (NonForcedRead(BatchA \cup BatchB) /\ resp.req = <<>>)
        => (resp.kind = "Trustable" /\ resp.trustable /\ resp.data = {} /\ calls = <<>>)

(* C5 *)

C6_ForcedDispatchesWholeRequest ==
    resp.force => (Len(calls) = 1 /\ calls[1].keys = resp.req)

\* a forced batch read of two files of which exactly one is stored
C6_Witness ==
    /\ resp.force /\ resp.handler = "curseforge_files"
    /\ Cardinality(Requested) = 2
    /\ Cardinality(StoredFor("curseforge_files", Requested)) = 1

(* C7 *)

\* C7: a non-forced batch read submits exactly the missing and the stale keys.
C7_DispatchIsMissingAndStale ==
    NonForcedRead(BatchA \cup BatchB) => Dispatched = MissingKeys \cup StaleKeys

(* C8 *)

\* C8: no enqueue call carries an empty key list.
C8_NoEmptyEnqueue == \A i \in DOMAIN calls : calls[i].keys # <<>>

(* C9 *)

\* C9: a non-forced batch response is trustable exactly when no requested key
\* is missing and no returned record is stale.
C9_TrustableIffNothingMissingOrStale ==
    (NonForcedRead(BatchA \cup BatchB) /\ resp.kind = "Trustable")
        => (resp.trustable <=> (MissingKeys = {} /\ StaleKeys = {}))

(* C10 *)

\* C10: a non-forced read of keys none of which has a stored record returns
\* the explicit uncached signal.
C10_NeverSyncedIsUncached ==
    (NonForcedRead(BatchA \cup BatchB \cup SingleA \cup SingleB)
     /\ resp.req # <<>> /\ StoredFor(resp.handler, Requested) = {})
        => resp.kind = "Uncached"

(* C11 *)

\* C11: every response of a read handler carries a trustable flag or is the
\* explicit uncached signal; none is a bare status response.
C11_EveryResponseFlagged == resp.kind # "Status"

(* C12 *)

\* the keys of a job that the upstream answers with 404 to the job's own request
Direct404(job) ==
    CASE job.fn = "sync_project" -> {k \in Range(job.keys) : UpstreamResolve(k) = {}}
      [] job.fn = "sync_version" -> Range(job.keys) \ UpstreamVersions
      [] job.fn = "sync_hash" -> Range(job.keys) \ UpstreamHashes
      [] OTHER -> {}

\* the projects whose version list a job fetches in its cascade
CascadeProjects(job) ==
    CASE job.fn = "sync_project" -> {k \in Range(job.keys) : UpstreamResolve(k) # {}}
      [] job.fn \in {"sync_hash", "sync_multi_hashes"} ->
            {UpstreamProjectOf(UpstreamVersionOfHash(x)) : x \in Range(job.keys) \cap UpstreamHashes}
      [] OTHER -> {}

KindOfJob(job) ==
    CASE job.fn = "sync_project" -> "project"
      [] job.fn = "sync_version" -> "version"
      [] job.fn = "sync_hash" -> "mfile"
      [] OTHER -> "project"

Tombstone(kind, k) == \E m \in store[kind] : m.id = k /\ ~m.found

\* C12: when the upstream answers a job with 404 for a key, the store holds
\* a found = false record for that key once the job has ended; likewise for
\* the project when the 404 comes from the cascaded fetch of its version list.
C12_NotFoundCommitsTombstone ==
    last.up \in {"answers", "gone"} =>
        /\ \A k \in Direct404(last.job) : Tombstone(KindOfJob(last.job), k)
        /\ last.up = "gone" => \A k \in CascadeProjects(last.job) : Tombstone("project", k)

(* C13 *)

PrimaryKeyLookups == {"curseforge_mod", "modrinth_project", "modrinth_version"}

\* the stored record of the requested key is a tombstone
TombstoneRead(hs) ==
    /\ NonForcedRead(hs)
    /\ \E m \in StoredFor(resp.handler, Requested) : ~m.found

Unserved(h, k) == resp.handler = h /\ ~resp.force /\ resp.req = <<k>> /\ ~resp.trustable
\* a non-forced read of key k by handler h that returned the record, trustable
Served(h, k) ==
    /\ resp.handler = h /\ ~resp.force /\ resp.req = <<k>>
    /\ resp.kind = "Trustable" /\ resp.trustable /\ resp.data # {}

\* C14: a version that exists upstream and that a non-forced read found
\* absent or stale is, with the upstream answering and the workers scheduled
\* fairly, eventually returned by a non-forced read with trustable = true.
C14_EventuallyTrustable ==
    \A k \in UpstreamVersions : Unserved("modrinth_version", k) ~> Served("modrinth_version", k)

(* C15 *)

\* the handlers that look entities up in the store and enqueue on a miss
EntityHandlers == BatchA \cup BatchB \cup SingleA \cup SingleB \cup {"modrinth_file", "modrinth_files"}

\* a lookup that found its key absent, or its record expired
MissOrStale ==
    \/ resp.kind \in {"Uncached", "Status"}
    \/ resp.kind = "Trustable" /\ ~resp.trustable

C16_NoErrorOutOfHandler == resp.kind # "Error"

(* C17 *)

\* C17: a request whose enqueue call fails is answered as it would have been
\* answered otherwise: no entity handler ends with an error for it.
C17_EnqueueFailureKeepsResponse ==
    resp.handler \in EntityHandlers => resp.kind \in {"Uncached", "Trustable", "Status"}

(* C18 *)

FingerprintHandlers == {"curseforge_fingerprints", "curseforge_fingerprints_432"}

\* C18: in the response of a fingerprint read, every record of exactMatches
\* is a stored record under the id of its embedded file, exactFingerprints
\* lists the fingerprints those records are stored by, and the store still
\* holds every fingerprint record under its fingerprint.
C18_ExactMatchesCarryFileId ==
    (resp.handler \in FingerprintHandlers /\ resp.kind = "Trustable") =>
        /\ resp.data = {[m EXCEPT !.id = m.file] : m \in StoredFor(resp.handler, Requested)}
        /\ Range(resp.exact) = IdsOf(StoredFor(resp.handler, Requested))
        /\ \A m \in store["fingerprint"] : m.id \in FingerprintIds

\* a read that returned the record of a fingerprint the upstream resolves,
\* under the file's id
C18_Witness ==
    /\ resp.handler \in FingerprintHandlers
    /\ resp.kind = "Trustable"
    /\ \E r \in resp.data : r.found /\ r.id = r.file /\ r.id \notin FingerprintIds
    /\ \E k \in Range(resp.exact) : k \in UpstreamFingerprints

(* C19 *)

\* C19 as stated: no request changes what is stored, in either application.
C19_ReadsNeverWrite ==
    [][resp'.handler # "none" => (store' = store /\ cache' = cache)]_vars

\* C19 amended: no request changes the entity store of the mirror, whose
\* records only the workers commit; a request to webapi.py's get_mod writes
\* the row it fetched into its cache table when, and only when, it fetched
\* (row missing, status not 200, or older than the lifetime).
C19_OnlyReadThroughWrites ==
    [][/\ resp'.handler # "none" => store' = store
       /\ resp'.handler \in EntityHandlers => cache' = cache
       /\ resp'.handler = "get_mod" =>
             cache' = IF resp'.inline # <<>> /\ resp'.status = 200
                      THEN {r \in cache : r.modid # resp'.req[1]}
                           \cup {[modid |-> resp'.req[1], slug |-> NoSlug, status |-> 200,
                                   time |-> now, cachetime |-> now]}
                      ELSE cache]_vars

\* a lookup in the mirror that found its record expired and left it as it
\* was, beside a cache table that a get_mod request has written
C19_Witness ==
    /\ resp.handler \in EntityHandlers
    /\ \E m \in StoredFor(resp.handler, Requested) : Stale(m)
    /\ calls # <<>>
    /\ cache # {}

(* C20 *)

\* the handlers that compare the sync_at of the records they return with the
\* clock
BoundaryChecked == {"modrinth_project", "modrinth_projects", "modrinth_project_versions",
                    "modrinth_versions"}

\* the batch found one record for each entry of its key list
NoMismatch == resp.handler \in BatchB => Cardinality(resp.data) = Len(resp.req)

\* C20: a read that found every key answers trustable = true exactly when
\* every record it returns has now - sync_at <= TTL(kind): a record whose age
\* equals the lifetime is still trustable, one that is older is not.
C20_StrictStalenessBoundary ==
    (resp.handler \in BoundaryChecked /\ resp.kind = "Trustable" /\ NoMismatch) =>
        (resp.trustable <=> \A m \in resp.data : now - m.sync_at <= TTL(m.kind))

\* versions read at the very end of their lifetime, answered trustable
C20_Witness ==
    /\ resp.handler = "modrinth_versions"
    /\ resp.data # {}
    /\ \A m \in resp.data : now - m.sync_at = TTL(m.kind)
    /\ resp.trustable

(* C21 *)

\* the records a batch leaves in the store: of the models of one key, the last
FinalOf(models) ==
    {models[i] : i \in {j \in DOMAIN models :
        \A l \in DOMAIN models :
            (l > j) => ~(models[l].kind = models[j].kind /\ models[l].id = models[j].id)}}

\* the store after all of a batch has been applied to `st`
AllApplied(st, models) ==
    [k \in Kinds |->
        {o \in st[k] : \A m \in FinalOf(models) : ~(m.kind = k /\ m.id = o.id)}
        \cup {m \in FinalOf(models) : m.kind = k}]

C22_SyncAtNeverDecreases ==
    [][\A k \in Kinds : \A o \in store[k] : \A n \in store'[k] :
          (n.id = o.id) => n.sync_at >= o.sync_at]_vars

(* C23 *)

\* C23: a not-found record enters the store only in the commit of a job whose
\* own request for that key the upstream answered with 404; a job whose
\* upstream request failed otherwise (timeout, 5xx, a 4xx other than 404, an
\* answer that does not fit the model) ends in failure, leaves the store as it
\* was, and leaves the other waiting jobs to the workers.
C23_TombstoneOnlyOn404 ==
    [][/\ \A k \in Kinds : \A n \in store'[k] \ store[k] :
            ~n.found => /\ last'.ok /\ last'.up # "fails"
                        /\ n.id \in Direct404(last'.job)
       /\ (last'.up = "fails") =>
            /\ ~last'.ok /\ store' = store
            /\ Len(queue') = Len(queue) - 1
            /\ Range(queue') \subseteq Range(queue)]_vars

\* a job has just failed on its upstream while the store holds the tombstone
\* an earlier job committed on a 404
C23_Witness ==
    /\ last.up = "fails" /\ ~last.ok
    /\ \E k \in Kinds : \E n \in store[k] : ~n.found

(* C24 *)

\* the files the upstream lists under the versions of project p
FilesOfProject(p) == UNION {Range(UpstreamFilesOf(v)) : v \in Range(UpstreamVersionsOf(p))}

ParentOf(job) ==
    IF job.fn = "sync_version" THEN UpstreamProjectOf(job.keys[1])
    ELSE UpstreamProjectOf(UpstreamVersionOfHash(job.keys[1]))

\* C25: a sync_version job, and a sync_hash job, for an entity the upstream
\* holds, run against an upstream that answers, commits; afterwards the store
\* holds a record of this moment for every version the upstream lists under
\* the parent project and for every file of those versions.
C25_VersionJobCommitsProjectGraph ==
    (/\ last.job.fn \in {"sync_version", "sync_hash"} /\ last.up = "answers"
     /\ last.job.keys[1] \in UpstreamVersions \cup UpstreamHashes)
        => /\ last.ok
           /\ \A v \in Range(UpstreamVersionsOf(ParentOf(last.job))) :
                \E m \in store["version"] : m.id = v /\ m.found /\ m.sync_at = now
           /\ \A f \in FilesOfProject(ParentOf(last.job)) :
                \E m \in store["mfile"] : m.id = f /\ m.found /\ m.sync_at = now

(* C26 *)

AllFound(models) == \A i \in DOMAIN models : models[i].found

\* C26: every record the normalizers emit (process_version_resp,
\* process_multi_versions, process_multi_hashes and the version / file loop of
\* sync_project_all_version), for any upstream payload, has found = true; a
\* stored version or file with found = false is the record of a 404 branch,
\* for a key the upstream does not hold.
C26_NormalizersEmitFound ==
    /\ \A v \in UpstreamVersions : AllFound(process_version_resp(v))
    /\ \A res \in KeyLists(UpstreamVersions, MaxReqLen) :
            AllFound(process_multi_versions(res)) /\ AllFound(process_multi_hashes(res))
    /\ \A project_id \in ProjectIds, up \in {"answers", "gone"} :
            /\ AllFound(sync_project_all_version(project_id, 0, up).models)
            /\ AllFound(sync_project_all_version(project_id, 10 + project_id, up).models)
    /\ \A m \in store["version"] \cup store["mfile"] :
            ~m.found => m.id \notin UpstreamVersions \cup UpstreamHashes

\* a hash job has committed what process_version_resp and the loop of
\* sync_project_all_version emitted for file 202, beside the not-found record
\* of a hash the upstream does not hold
C26_Witness ==
    /\ last.ok /\ last.job.fn = "sync_hash" /\ last.job.keys = <<202>>
    /\ \A f \in FilesOfProject(2) : \E m \in store["mfile"] : m.id = f /\ m.found /\ m.sync_at = now
    /\ \E m \in store["mfile"] : ~m.found /\ m.id = 203

(* C27 *)

Without(s, i) == [j \in 1..(Len(s) - 1) |-> IF j < i THEN s[j] ELSE s[j + 1]]
IsPrefix(s, t) == Len(s) <= Len(t) /\ \A i \in DOMAIN s : s[i] = t[i]

\* a job leaves the queue only by being taken by a worker, which either ends
\* it in failure or holds it in flight; a job leaves the jobs in flight only
\* by its own commit; no other step removes, replaces or reorders a job
NeverCancelled ==
    /\ (queue' # queue) =>
        \/ IsPrefix(queue, queue') /\ built' = built
        \/ \E i \in DOMAIN queue :
            /\ queue' = Without(queue, i)
            /\ \/ built' = built /\ last'.job = queue[i] /\ ~last'.ok
               \/ /\ Len(built') = Len(built) + 1 /\ IsPrefix(built, built')
                  /\ built'[Len(built')].job = queue[i]
    /\ (built' # built /\ queue' = queue) =>
        \E n \in DOMAIN built :
            /\ built' = Without(built, n)
            /\ last' = [job |-> built[n].job, up |-> "answers", ok |-> TRUE]
            /\ FinalOf(built[n].models) \subseteq UNION {store'[k] : k \in Kinds}

PoolJobs == {Call("sync_project", "", <<k>>) : k \in ProjectIds \cup ProjectSlugs}

\* C27: every job taken from the queue ends committed or failed: a waiting job
\* is taken, a job taken either fails at once or is held in flight, and a job
\* in flight commits; no job is cancelled, skipped or replaced because
\* another job for the same key was submitted, taken or committed.
C27_EveryJobRunsToItsEnd ==
    /\ [][NeverCancelled]_vars
    /\ (queue # <<>>) ~> (queue = <<>>)
    /\ \A j \in PoolJobs :
        (built # <<>> /\ Head(built).job = j) ~> (last.ok /\ last.job = j)

\* of two jobs in flight for the same key, one has committed and the other
\* is still in flight
C27_Witness ==
    /\ Len(built) = 1 /\ last.ok /\ last.job = built[1].job
    /\ \A i \in DOMAIN built[1].models :
            built[1].models[i] \in store[built[1].models[i].kind]

(* C28 *)

\* records and stores without their sync_at
Unstamped(m) == [m EXCEPT !.sync_at = 0]
UnstampedStore(st) == [k \in Kinds |-> {Unstamped(m) : m \in st[k]}]

\* C28: a job that committed, run once more against the same upstream, commits
\* again and leaves in the store the records it left the first time: the same
\* ids with the same field values, sync_at apart.  Two runs of one job against
\* the same upstream build the same records, sync_at apart.
C28_RedeliveryIdempotent ==
    [][/\ (last'.ok /\ last'.job.fn # "sync_tags") =>
            \A again \in {(Actor(last.job, "answers"))'} :
                /\ again.ok
                /\ UnstampedStore(save_all(store', again.models)) = UnstampedStore(store')
       /\ \A i, j \in DOMAIN built' :
            (built'[i].job = built'[j].job) =>
                [n \in DOMAIN built'[i].models |-> Unstamped(built'[i].models[n])]
                    = [n \in DOMAIN built'[j].models |-> Unstamped(built'[j].models[n])]]_vars

\* one job built twice, at two times: the two batches differ in sync_at only
C28_Witness ==
    /\ Len(built) = 2 /\ built[1].job = built[2].job
    /\ built[1].models # built[2].models
    /\ built[1].job.fn = "sync_hash" /\ Len(built[1].models) = 9

(* C29 *)

\* the stored not-found records that this step replaces by found ones
Upgraded ==
    UNION {{o \in store[k] : ~o.found /\ \E n \in store'[k] : n.id = o.id /\ n.found} : k \in Kinds}

\* the jobs that a forced request for one catalog-B key sends
SentByForcedRead == UNION {Range(out.calls) : out \in {r \in Reads : r.resp.force}}

\* the keys the upstream holds when it answers a job
HeldAt(kind, up) ==
    CASE kind = "project" -> UpstreamProjects
      [] kind = "version" -> VersionsHeld(up)
      [] kind = "mfile" -> HashesHeld(up)
      [] OTHER -> {}

\* C29 as stated: a stored tombstone for key k is replaced by a found record
\* only by a job that a forced request for k sent; no job sent for another key
\* replaces it.
C29_TombstoneUpgradedByForcedOnly ==
    [][\A o \in Upgraded :
          last'.job \in SentByForcedRead /\ o.id \in Range(last'.job.keys)]_vars

\* C29 amended: a stored tombstone for key k is replaced by a found record
\* only in the commit of a sync job that the upstream answered with k among
\* what it holds; no request, forced or not, changes a stored record by
\* itself.  The job may have been sent by a non-forced read, and for a key
\* other than k: the cascade of its project covers k.
C29_TombstoneUpgradedByCommitOnly ==
    [][/\ \A o \in Upgraded :
            /\ last'.ok
            /\ o.id \in HeldAt(o.kind, last'.up)
            /\ \E i \in DOMAIN Actor(last'.job, last'.up).models :
                    Actor(last'.job, last'.up).models[i].id = o.id
       /\ (\E k \in Kinds : \E o \in store[k] : ~o.found /\ o \notin store'[k])
            => last'.ok]_vars

\* the tombstone of version 103 is stored, and a non-forced read of project 1
\* has sent the job whose cascade will cover the version
C29_Witness ==
    /\ \E m \in store["version"] : m.id = LaterVersion /\ ~m.found
    /\ queue = <<Call("sync_project", "", <<1>>)>>
    /\ resp.handler = "modrinth_project" /\ ~resp.force

(* C30 *)

\* C30: a read request of a kind that the upstream fetches in bulk
\* (modrinth_projects, modrinth_versions) submits at most one sync job, and no
\* key is in two jobs of one request.
C30_OneBulkJobPerRequest ==
    (resp.handler \in BatchB) =>
        /\ Len(calls) <= 1
        /\ \A i, j \in DOMAIN calls :
                (i # j) => Range(calls[i].keys) \cap Range(calls[j].keys) = {}

(* C31 *)

\* a store as an earlier run of the service left it: File records of files
\* the upstream holds, each naming its version, and no Version record
InitDangling ==
    \E hs \in (SUBSET {201, 202, 204}) \ {{}} :
        InitWith([k \in Kinds |->
                    IF k = "mfile"
                    THEN {[kind |-> "mfile", id |-> hash,
                           version_id |-> UpstreamVersionOfHash(hash), slug |-> 0,
                           found |-> TRUE, sync_at |-> 0] : hash \in hs}
                    ELSE {}],
                 FALSE)

\* the lookups by hash and their jobs, over such a store
SpecDangling == InitDangling /\ [][NextHash]_vars

\* a stored file whose version has no record
Dangling(f) == f.found /\ ~\E v \in store["version"] : v.id = f.version_id
DanglingAsked == {f \in store["mfile"] : f.id \in Requested /\ Dangling(f)}

\* C31: a lookup by hash that resolves to a stored file whose version has no
\* record answers with the uncached signal and sends one job, for exactly the
\* version ids such files name; and once a job sent for version ids has run
\* against an upstream that answers, no stored file names one of those ids
\* without a Version record, so that the same lookup returns the version.
C31_DanglingReferenceRepaired ==
    /\ (NonForcedRead({"modrinth_file", "modrinth_files"}) /\ DanglingAsked # {})
        => /\ resp.kind = "Uncached"
           /\ \E i \in DOMAIN calls :
                /\ calls[i].fn \in {"sync_version", "sync_multi_versions"}
                /\ Range(calls[i].keys) = {f.version_id : f \in DanglingAsked}
    /\ (last.job.fn \in {"sync_version", "sync_multi_versions"} /\ last.up = "answers")
        => /\ last.ok
           /\ \A f \in store["mfile"] : f.version_id \in Range(last.job.keys) => ~Dangling(f)

(* C32 *)

\* the collection a bulk job writes its keys to
KindOfBulk(job) ==
    CASE job.fn = "sync_multi_projects" -> "project"
      [] job.fn = "sync_multi_versions" -> "version"
      [] job.fn = "sync_multi_hashes" -> "mfile"

\* the keys the upstream holds, by collection
UpstreamKeys(kind) ==
    CASE kind = "project" -> UpstreamProjects
      [] kind = "version" -> UpstreamVersions
      [] kind = "mfile" -> UpstreamHashes

\* the batch read of a key list
BatchRead(job) ==
    CASE job.fn = "sync_multi_projects" -> modrinth_projects(job.keys)
      [] job.fn = "sync_multi_versions" -> modrinth_versions(job.keys)
      [] job.fn = "sync_multi_hashes" -> modrinth_files(job.keys)

\* C32: once a bulk job for the key list L has committed, the store holds a
\* record for every key of L, found = true when the upstream holds the key and
\* found = false otherwise, also when the bulk response left keys of L out;
\* and the batch read of L in that state sends no job.
C32_BulkJobCoversEveryKey ==
    (last.ok /\ last.job.fn \in BulkJobs)
        => /\ \A k \in Range(last.job.keys) :
                \E m \in store[KindOfBulk(last.job)] :
                    m.id = k /\ (m.found <=> (last.up # "not_found"
                                              /\ k \in UpstreamKeys(KindOfBulk(last.job))))
           /\ BatchRead(last.job).calls = <<>>

(* C34 *)

\* the mods of the search result just served that the task may enqueue
Eligible == {id \in Requested : id >= 30000} \ IdsOf(store["mod"])

\* C34: after a search that the upstream answered, the enqueue calls are: none
\* when no mod id of the result is >= 30000 and without a record in the store
\* (an empty result, ids below 30000 only, every eligible id stored); otherwise
\* one call, whose keys are exactly those ids, each once.
C34_SearchEnqueuesUnknownMods ==
    (resp.handler = "curseforge_search" /\ resp.kind = "Trustable")
        => IF Eligible = {} THEN calls = <<>>
           ELSE /\ Len(calls) = 1
                /\ calls[1].fn = "add_curseforge_modIds_to_queue"
                /\ calls[1].kw = "modIds"
                /\ Range(calls[1].keys) = Eligible
                /\ Len(calls[1].keys) = Cardinality(Eligible)

\* a result with an id below 30000, a stored mod and an unknown mod: the
\* unknown mod alone is enqueued
C34_Witness ==
    /\ resp.handler = "curseforge_search" /\ resp.kind = "Trustable"
    /\ Requested = {29999, 30000, 30001}
    /\ IdsOf(store["mod"]) = {30000}
    /\ calls = <<Call("add_curseforge_modIds_to_queue", "modIds", <<30001>>)>>

(* C33 *)

\* every hash asked for has a stored file, no hash is asked for twice, and the
\* version of each of those files is stored
AllStored ==
    /\ Len(resp.req) = Cardinality(Requested)
    /\ Requested \subseteq IdsOf(store["mfile"])
    /\ \A f \in store["mfile"] :
         f.id \in Requested => \E v \in store["version"] : v.id = f.version_id

\* C33: a batch lookup by hash for which every hash has a stored file and every
\* version those files name is stored answers trustable = true and sends no
\* job, also when several of the hashes are files of one version.
C33_AllStoredIsTrustable ==
    (NonForcedRead({"modrinth_files"}) /\ AllStored)
        => resp.kind = "Trustable" /\ resp.trustable /\ calls = <<>>

(* C35 *)

\* the projects a job's cascade covers, by id
ProjectsCovered(job) ==
    IF job.fn = "sync_project" THEN UNION {UpstreamResolve(k) : k \in Range(job.keys)}
    ELSE CascadeProjects(job)

\* the files the upstream returns to a job: those of every version of the
\* projects its cascade covers
FilesReturned(job) == UNION {FilesOfProject(p) : p \in ProjectsCovered(job)}

\* C35: a sync_project or sync_hash job that the upstream answered hands its
\* models to submit_models, which saves them all, with the file mirror on as
\* with the mirror off: the job ends well and the store holds a record of this
\* moment for its key, for the project it resolves to and for every file
\* returned.  With the mirror on, the downloads scheduled are those of the
\* returned files not yet on disk, and no other; with the mirror off, none.
C35_SubmitSavesAllAndMirrorsFiles ==
    (last.job.fn \in {"sync_project", "sync_hash"} /\ last.up = "answers")
        => /\ last.ok
           /\ \E m \in store[KindOfJob(last.job)] :
                /\ m.id = last.job.keys[1] \/ m.slug = last.job.keys[1]
                /\ m.sync_at = now
           /\ \A f \in FilesReturned(last.job) :
                \E m \in store["mfile"] : m.id = f /\ m.found /\ m.sync_at = now
           /\ \A p \in ProjectsCovered(last.job) :
                \A v \in Range(UpstreamVersionsOf(p)) :
                    \E m \in store["version"] : m.id = v /\ m.found /\ m.sync_at = now
           /\ Range(mirror.tasks) = IF file_cdn THEN FilesReturned(last.job) \ mirror.disk
                                    ELSE {}

(* C36 *)

\* the function under the decorator of the handler that answered r, run for
\* the request of r with the upstream answering as `up`
CallbackOf(r, up) ==
    IF r.handler = "get_mod" THEN get_mod_callback(r.req[1], up)
    ELSE get_mods_callback(r.req, up)

\* r is what the wrapper makes of the callback's outcome `done`
Wraps(r, done) ==
    IF done.raised = "none" THEN r = done.resp
    ELSE /\ r.kind = "Json"
         /\ r.data = {}
         /\ r.status = IF done.raised = "StatusCodeException" THEN done.status ELSE 500
         /\ r.error = IF done.raised = "StatusCodeException" /\ done.status = 404
                      THEN "DataNotExists" ELSE "StatusCodeException"

\* C36: a request to a handler wrapped by api_json_middleware is answered with
\* a response, never with an exception: the callback's own response when it
\* returned, a 404 response with error DataNotExists for a StatusCodeException
\* of status 404, a response of the exception's status for any other
\* StatusCodeException, and a 500 response for any other exception.
C36_MiddlewareAnswersEveryOutcome ==
    [][resp'.handler \in {"get_mod", "get_mods"} =>
        /\ resp'.kind # "Error"
        /\ \E up \in WebUps :
            \A done \in {CallbackOf(resp', up)} :
                /\ Wraps(resp', done)
                /\ cache' = done.cache
                /\ calls' = done.calls]_vars

\* the upstream answered 404 to the callback's fetch: the client got the 404
\* response with DataNotExists
C36_Witness ==
    /\ resp.handler = "get_mod"
    /\ resp.inline = <<"cf_api.get_mod">>
    /\ resp.kind = "Json" /\ resp.status = 404 /\ resp.error = "DataNotExists"

(* C37 *)

\* the slug of a mod, as the table's slug column holds it when the schema of
\* curseforge_mod_info fills it
WebSlugOf(modid) == modid - 29989

\* table curseforge_mod_info as the service may find it: at most one row per
\* modid, written at time 0, with or without its slug, of status 200 or not
RowsOf(modid) ==
    {[modid |-> modid, slug |-> slug, status |-> status, time |-> 0, cachetime |-> 0] :
        slug \in {NoSlug, WebSlugOf(modid)}, status \in {200, 404}}

InitRows ==
    /\ store = [k \in Kinds |-> {}]
    /\ now = 0
    /\ queue = <<>>
    /\ resp = NoResp
    /\ calls = <<>>
    /\ file_cdn = FALSE
    /\ ran = 0
    /\ last = NoJob
    /\ kv = {}
    /\ \E rows \in SUBSET UNION {RowsOf(modid) : modid \in ModIds} :
        /\ \A r, q \in rows : r.modid = q.modid => r = q
        /\ cache = rows
    /\ built = <<>>
    /\ mirror = [disk |-> {}, tasks |-> <<>>]
    /\ mr_tables = [project |-> {}, tag |-> {}]

\* the cache service over such a table
SpecRows == InitRows /\ [][NextW]_vars

\* the row a lookup of `key` selects
RowFor(key) ==
    {r \in cache : IF key \in WebSlugs THEN r.slug = key ELSE r.modid = key}

SelectedRows(r) == {x \in mr_tables.tag : x.slug = r.req[1]}

\* C38: a request for a tag whose row is in the table is answered from the
\* table, with no request to the upstream, only when the row has status 200
\* and its age, now minus its cache time, is under CacheTTL; a row that is
\* older is fetched from the upstream before the answer.
C38_CachedRowsServedWhileFresh ==
    [][(resp'.handler = "get_modrinth_tag" /\ SelectedRows(resp') # {})
            => IF \A x \in SelectedRows(resp') : x.status = 200 /\ now - x.time < CacheTTL
               THEN resp'.kind = "Json"
               ELSE resp'.inline # <<>>]_vars
====
